---- MODULE Spec2Model ----
(***************************************************************************)
(* Model of the Mascot photo booth (src/python): the durable Sync Queue    *)
(* (sync_queue.py), the upload / retention manager (supabase_upload.py),   *)
(* the capture sequencer (capture_modes.py) and the booth control loop     *)
(* (camera_main.py) with its serial LED sink (arduino_bridge.py).          *)
(***************************************************************************)
EXTENDS Integers, Sequences, FiniteSets, TLC

VARIABLES
    queue,          \* sync_queue.queue: the in-memory list of QueuedItem
    storage_file,   \* the file sync_queue.json on disk
    local_files,    \* paths for which os.path.exists holds
    bucket,         \* object keys held by the cloud bucket
    photos,         \* rows of the table "photos", in created_at order
    now,            \* time.time() / the database clock, one tick per reading
    last,           \* the call that returned last, with its arguments and result
    last_capture_time,  \* main: time of the last accepted capture trigger
    last_command,   \* main: the command the loop believes the LED sink shows
    port,           \* ArduinoBridge.serial_conn and what the LED sink received last
    current_mode,   \* web_gallery.current_mode
    current_filter, \* web_gallery.current_filter, a str as its sequence of characters
    roboflow,       \* main: a RoboflowDetector was built (ROBOFLOW_ENABLED)
    threads,        \* paths handed to background_upload threads
    crashed,        \* an exception has left main
    cycle,          \* what the last cycle of the control loop did
    workers,        \* background upload threads: where each is in its call
    sequence,       \* the capture sequence in flight: its locals and its frames
    burst,          \* a call of capture_burst: its arguments and its result
    pure            \* a call of a function without side effects: arguments and result

booth == <<last_capture_time, last_command, port, current_mode, current_filter, roboflow,
           threads, crashed, cycle, workers, sequence>>

vars == <<queue, storage_file, local_files, bucket, photos, now, last, booth, burst, pure>>

(***************************************************************************)
(* Bounds of the model.                                                    *)
(***************************************************************************)
MaxQueue == 2       \* longest sync queue explored
MaxNow == 3         \* last reading of the clock explored by the queue model
MaxRetries == 6     \* failures recorded in the whole queue before no more are explored

(***************************************************************************)
(* Values.                                                                 *)
(***************************************************************************)
Paths == {"a.jpg", "b.jpg"}

EmptyDict == [k \in {} |-> ""]

\* The metadata arguments of add: None, {} and {"filter": "bw"}.
MetaArgs ==
    { [given |-> FALSE, dict |-> EmptyDict],
      [given |-> TRUE,  dict |-> EmptyDict],
      [given |-> TRUE,  dict |-> [k \in {"filter"} |-> "bw"]] }

\* "metadata or {}"
MetaOrEmpty(m) == IF m.given /\ DOMAIN m.dict # {} THEN m.dict ELSE EmptyDict

\* QueuedItem(filepath, timestamp, metadata): status and retries take their defaults.
QueuedItem(fp, ts, md) ==
    [filepath |-> fp, timestamp |-> ts, metadata |-> md,
     status |-> "pending", retries |-> 0]

(***************************************************************************)
(* JSON: a dict is written as the sequence of its key/value pairs and read *)
(* back by key.                                                            *)
(***************************************************************************)
RECURSIVE DictPairs(_, _)
DictPairs(d, keys) ==
    IF keys = {} THEN <<>>
    ELSE LET k == CHOOSE x \in keys : TRUE
         IN  <<  <<k, d[k]>>  >> \o DictPairs(d, keys \ {k})

PairsDict(ps) ==
    [k \in {ps[i][1] : i \in 1..Len(ps)} |->
        ps[CHOOSE i \in 1..Len(ps) : ps[i][1] = k][2]]

JsonGet(obj, key) == obj[CHOOSE i \in 1..Len(obj) : obj[i][1] = key][2]

\* asdict with the metadata left out: the variant of asdict that C8 must detect.
asdict_without_metadata(item) ==
    << <<"filepath", item.filepath>>,
       <<"timestamp", item.timestamp>>,
       <<"metadata", <<>> >>,
       <<"status", item.status>>,
       <<"retries", item.retries>> >>

\* dataclasses.asdict(item), as json.dump writes it
asdict(item) ==
    << <<"filepath", item.filepath>>,
       <<"timestamp", item.timestamp>>,
       <<"metadata", DictPairs(item.metadata, DOMAIN item.metadata)>>,
       <<"status", item.status>>,
       <<"retries", item.retries>> >>

\* QueuedItem(**item) for an object read by json.load
FromJson(obj) ==
    [filepath |-> JsonGet(obj, "filepath"),
     timestamp |-> JsonGet(obj, "timestamp"),
     metadata |-> PairsDict(JsonGet(obj, "metadata")),
     status |-> JsonGet(obj, "status"),
     retries |-> JsonGet(obj, "retries")]

NoFile == [exists |-> FALSE, valid |-> FALSE, text |-> <<>>]
CorruptFile == [exists |-> TRUE, valid |-> FALSE, text |-> <<>>]

(***************************************************************************)
(* SyncQueue (sync_queue.py).                                              *)
(***************************************************************************)
\* SyncQueue.load on a queue that __init__ has just set to []
load(file) ==
    IF file.exists /\ file.valid
    THEN [i \in 1..Len(file.text) |-> FromJson(file.text[i])]
    ELSE <<>>

\* SyncQueue.save: the file's new content
save(q) ==
    [exists |-> TRUE, valid |-> TRUE, text |-> [i \in 1..Len(q) |-> asdict(q[i])]]

add(q, fp, m, t) == Append(q, QueuedItem(fp, t, MetaOrEmpty(m)))

\* get_pending without its filter: the variant of get_pending that C6 must detect.
get_all(q) == q

get_pending(q) == SelectSeq(q, LAMBDA item : item.status = "pending")

\* mark_completed dropping the queue up to and including the first item of
\* the filepath: the variant that the claim about the other items must detect.
RECURSIVE mark_completed_upto(_, _)
mark_completed_upto(q, fp) ==
    IF q = <<>> THEN <<>>
    ELSE IF Head(q).filepath = fp THEN Tail(q)
    ELSE IF \E i \in DOMAIN q : q[i].filepath = fp THEN mark_completed_upto(Tail(q), fp)
    ELSE q

mark_completed(q, fp) == SelectSeq(q, LAMBDA item : item.filepath # fp)

\* mark_failed promoting at the 5th failure: the variant that C7 must detect.
mark_failed_at_five(q, fp) ==
    [i \in 1..Len(q) |->
        IF q[i].filepath = fp
        THEN [q[i] EXCEPT !.retries = @ + 1,
                          !.status = IF q[i].retries + 1 >= 5
                                     THEN "failed_permanently" ELSE @]
        ELSE q[i]]

mark_failed(q, fp) ==
    [i \in 1..Len(q) |->
        IF q[i].filepath = fp
        THEN [q[i] EXCEPT !.retries = @ + 1,
                          !.status = IF q[i].retries + 1 > 5
                                     THEN "failed_permanently" ELSE @]
        ELSE q[i]]

clear(q) == <<>>

(***************************************************************************)
(* The cloud: bucket objects and rows of the table "photos".               *)
(***************************************************************************)
\* Results of one try block that uploads an object and inserts its row.
Outcomes == {"ok", "upload_error", "insert_error"}

NoName == [kind |-> "null", ts |-> 0, name |-> ""]

\* f"sync_{int(item.timestamp)}_{filename}"
SyncKey(item) == [kind |-> "sync", ts |-> item.timestamp, name |-> item.filepath]

\* The row that insert(data) creates: data carries image_url (and created_at in
\* process_queue), never filename.
Row(key, t) == [created_at |-> t, filename |-> NoName, image_url |-> key]

\* table("photos").insert(row), the table kept in created_at order
insert(rows, row) ==
    SelectSeq(rows, LAMBDA r : r.created_at <= row.created_at)
        \o <<row>>
        \o SelectSeq(rows, LAMBDA r : r.created_at > row.created_at)

(***************************************************************************)
(* process_queue (supabase_upload.py): one sweep over the pending items.   *)
(* st = [queue, file, bucket, photos]; outs[i] is what the upload of the   *)
(* i-th pending item meets.                                                *)
(***************************************************************************)
QueueFailed(st, fp) ==
    LET q == mark_failed(st.queue, fp)
    IN  [st EXCEPT !.queue = q, !.file = save(q)]

QueueCompleted(st, fp) ==
    LET q == mark_completed(st.queue, fp)
    IN  [st EXCEPT !.queue = q, !.file = save(q)]

process_item(item, out, files, st) ==
    IF item.filepath \notin files THEN QueueFailed(st, item.filepath)
    ELSE IF out = "upload_error" THEN QueueFailed(st, item.filepath)
    ELSE IF out = "insert_error"
         THEN QueueFailed([st EXCEPT !.bucket = @ \cup {SyncKey(item)}], item.filepath)
    ELSE QueueCompleted(
            [st EXCEPT !.bucket = @ \cup {SyncKey(item)},
                       !.photos = insert(@, Row(SyncKey(item), item.timestamp))],
            item.filepath)

RECURSIVE process_items(_, _, _, _, _)
process_items(pending, i, outs, files, st) ==
    IF i > Len(pending) THEN st
    ELSE process_items(pending, i + 1, outs, files,
                       process_item(pending[i], outs[i], files, st))

process_queue(outs, files, st) ==
    LET pending == get_pending(st.queue)
    IN  IF pending = <<>> THEN st ELSE process_items(pending, 1, outs, files, st)

RECURSIVE Recorded(_)
Recorded(q) == IF q = <<>> THEN 0 ELSE Head(q).retries + Recorded(Tail(q))

Cloud == [queue |-> queue, file |-> storage_file, bucket |-> bucket, photos |-> photos]

\* What is kept of the call that returned last: its arguments, what it
\* returned, and the queue, rows and objects it started from.
NoCall == [op |-> "none", path |-> "", existed |-> FALSE, ok |-> FALSE,
           url |-> NoName, attempts |-> 0, first |-> 0, before |-> <<>>,
           raised |-> FALSE, limit |-> 0, rows |-> <<>>, objects |-> {},
           errs |-> [fetch |-> FALSE, storage |-> {}, db |-> {}]]

(***************************************************************************)
(* The booth before the first cycle of its control loop (camera_main.py).  *)
(***************************************************************************)
\* No cycle has run yet.
NoCycle == [gesture |-> "NONE", animation |-> "NONE", events |-> <<>>,
            main_network |-> <<>>,
            command |-> "NONE", elapsed |-> 0, accepted |-> FALSE, mode |-> "NONE",
            frames |-> 0, written |-> <<>>, repeated |-> FALSE, wrote_file |-> FALSE,
            dispatched |-> FALSE, outcome |-> "none"]

\* No background upload thread has been started.
NoWorkers == [at |-> <<>>, owed |-> {}]

\* No capture sequence is in flight.
NoSequence == [active |-> FALSE, pc |-> "idle", mode |-> "NONE", filter_name |-> <<>>,
               filter_type |-> "NONE", i |-> 0, frames |-> <<>>]

\* capture_burst has not been called.
NoBurst == [count |-> 0, reads |-> <<>>, called |-> FALSE, raised |-> FALSE,
            attempts |-> 0, images |-> <<>>, timestamps |-> <<>>]

\* No function has been called.
NoPure == [fn |-> "none", called |-> FALSE]

(***************************************************************************)
(* Python str values.  A str is the sequence of its characters; Str gives  *)
(* the string a sequence spells, for comparison with literals.             *)
(***************************************************************************)
LowerCase == <<"a", "b", "c", "d", "e", "f", "g", "h", "i", "j", "k", "l", "m",
               "n", "o", "p", "q", "r", "s", "t", "u", "v", "w", "x", "y", "z">>
UpperCase == <<"A", "B", "C", "D", "E", "F", "G", "H", "I", "J", "K", "L", "M",
               "N", "O", "P", "Q", "R", "S", "T", "U", "V", "W", "X", "Y", "Z">>

\* str.upper() of one character: a lower-case letter becomes its capital,
\* every other character stays.
char_upper(c) ==
    IF \E i \in DOMAIN LowerCase : LowerCase[i] = c
    THEN UpperCase[CHOOSE i \in DOMAIN LowerCase : LowerCase[i] = c]
    ELSE c

\* A str left as it is where the code calls upper(): the variant that the
\* claims about case must detect.
str_unchanged(s) == s

\* str.upper()
str_upper(s) == [i \in 1..Len(s) |-> char_upper(s[i])]

RECURSIVE Str(_)
Str(cs) == IF cs = <<>> THEN "" ELSE cs[1] \o Str(Tail(cs))

\* Python's None where a str is expected: no sequence of characters.
None == <<"None">>

\* web_gallery.current_filter = "NORMAL"
DefaultFilter == <<"N", "O", "R", "M", "A", "L">>

\* ArduinoBridge() with the port opened, nothing written to it yet.
PortOpen == [conn |-> "open", sink |-> "NONE", device |-> TRUE]

\* main() before "while True".
BoothIdle ==
    /\ last_capture_time = 0
    /\ last_command = "NORMAL"
    /\ port = PortOpen
    /\ current_mode = "SINGLE"
    /\ current_filter = DefaultFilter
    /\ roboflow = FALSE
    /\ threads = {}
    /\ crashed = FALSE
    /\ cycle = NoCycle
    /\ workers = NoWorkers
    /\ sequence = NoSequence

(***************************************************************************)
(* The Sync Queue on its own: the calls of its interface, a retry sweep,   *)
(* a restart of the process, and files disappearing from the photo folder. *)
(***************************************************************************)
Add(fp, m) ==
    /\ Len(queue) < MaxQueue
    /\ now < MaxNow
    /\ queue' = add(queue, fp, m, now)
    /\ storage_file' = save(queue')
    /\ now' = now + 1
    /\ UNCHANGED <<local_files, bucket, photos, last, booth, burst, pure>>

MarkFailed(fp) ==
    /\ Recorded(queue) < MaxRetries
    /\ queue' = mark_failed(queue, fp)
    /\ storage_file' = save(queue')
    /\ UNCHANGED <<local_files, bucket, photos, now, last, booth, burst, pure>>

MarkCompleted(fp) ==
    /\ queue' = mark_completed(queue, fp)
    /\ storage_file' = save(queue')
    /\ UNCHANGED <<local_files, bucket, photos, now, last, booth, burst, pure>>

Clear ==
    /\ queue' = clear(queue)
    /\ storage_file' = save(queue')
    /\ UNCHANGED <<local_files, bucket, photos, now, last, booth, burst, pure>>

\* A new process: sync_queue = SyncQueue() reads the file again.
Restart ==
    /\ queue' = load(storage_file)
    /\ UNCHANGED <<storage_file, local_files, bucket, photos, now, last, booth, burst, pure>>

ProcessQueue(outs) ==
    LET st == process_queue(outs, local_files, Cloud)
    IN  /\ Recorded(queue) < MaxRetries
        /\ queue' = st.queue
        /\ storage_file' = st.file
        /\ bucket' = st.bucket
        /\ photos' = st.photos
        /\ UNCHANGED <<local_files, now, last, booth, burst, pure>>

\* /delete/<filename> of the gallery, or the operator, removes a photo file.
DeleteFile(fp) ==
    /\ fp \in local_files
    /\ local_files' = local_files \ {fp}
    /\ UNCHANGED <<queue, storage_file, bucket, photos, now, last, booth, burst, pure>>

InitQueue ==
    /\ storage_file \in {NoFile, CorruptFile, save(<<>>)}
    /\ queue = load(storage_file)
    /\ local_files = Paths
    /\ bucket = {}
    /\ photos = <<>>
    /\ now = 1
    /\ last = NoCall
    /\ BoothIdle
    /\ burst = NoBurst
    /\ pure = NoPure

NextQueue ==
    \/ \E fp \in Paths, m \in MetaArgs : Add(fp, m)
    \/ \E fp \in Paths : MarkFailed(fp)
    \/ \E fp \in Paths : MarkCompleted(fp)
    \/ Clear
    \/ Restart

SpecQueue == InitQueue /\ [][NextQueue]_vars

(***************************************************************************)
(* Retry sweeps: items are queued as upload_photo queues them (metadata    *)
(* None), failures are recorded, and process_queue sweeps the queue.       *)
(***************************************************************************)
NextSweep ==
    \/ \E fp \in Paths : Add(fp, [given |-> FALSE, dict |-> EmptyDict])
    \/ \E fp \in Paths : MarkFailed(fp)
    \/ \E outs \in [1..Len(get_pending(queue)) -> Outcomes] : ProcessQueue(outs)
    \/ \E fp \in Paths : DeleteFile(fp)
    \/ Restart

SpecSweep == InitQueue /\ [][NextSweep]_vars

(***************************************************************************)
(* The queue being drained: uploads that failed are queued, files vanish,  *)
(* and items leave the queue by mark_completed, called directly or by a    *)
(* sweep of process_queue.                                                 *)
(***************************************************************************)
NextDrain ==
    \/ \E fp \in Paths : Add(fp, [given |-> FALSE, dict |-> EmptyDict])
    \/ \E fp \in Paths : MarkCompleted(fp)
    \/ \E outs \in [1..Len(get_pending(queue)) -> Outcomes] : ProcessQueue(outs)
    \/ \E fp \in Paths : DeleteFile(fp)
    \/ Restart

SpecDrain == InitQueue /\ [][NextDrain]_vars

(***************************************************************************)
(* cleanup_storage(limit) (supabase_upload.py).  errs says which calls of  *)
(* the service raise: the select, the storage remove of the i-th excess    *)
(* row, the delete of the i-th excess row.                                 *)
(***************************************************************************)
NoErrors == [fetch |-> FALSE, storage |-> {}, db |-> {}]

CleanupErrs ==
    { NoErrors,
      [fetch |-> TRUE,  storage |-> {},  db |-> {}],
      [fetch |-> FALSE, storage |-> {1}, db |-> {}],
      [fetch |-> FALSE, storage |-> {},  db |-> {1}] }

\* One pass of "for i in range(extra)" over the rows fetched before the loop;
\* a delete that raises leaves the loop through the outer except.
RECURSIVE cleanup_rows(_, _, _, _, _)
cleanup_rows(fetched, i, extra, errs, st) ==
    IF i > extra THEN st
    ELSE LET fname == fetched[i].filename
         IN  IF fname = NoName
             THEN cleanup_rows(fetched, i + 1, extra, errs, st)
             ELSE LET st1 == IF i \in errs.storage THEN st
                             ELSE [st EXCEPT !.bucket = @ \ {fname}]
                  IN  IF i \in errs.db THEN st1
                      ELSE cleanup_rows(fetched, i + 1, extra, errs,
                               [st1 EXCEPT !.photos =
                                   SelectSeq(@, LAMBDA r : r.filename # fname)])

cleanup_storage(limit, errs, st) ==
    IF errs.fetch THEN st
    ELSE IF Len(st.photos) > limit
         THEN cleanup_rows(st.photos, 1, Len(st.photos) - limit, errs, st)
         ELSE st

\* Whether a call of the service raised inside cleanup_storage(limit).
cleanup_raised(limit, errs, st) ==
    \/ errs.fetch
    \/ /\ Len(st.photos) > limit
       /\ \E i \in 1..(Len(st.photos) - limit) :
            /\ st.photos[i].filename # NoName
            /\ i \in errs.storage \cup errs.db
            /\ \A j \in 1..(i - 1) :
                 st.photos[j].filename # NoName => j \notin errs.db

(***************************************************************************)
(* upload_photo and upload_bytes (supabase_upload.py).  outs[k] is what    *)
(* attempt k meets; souts and errs are what process_queue and              *)
(* cleanup_storage meet after the attempt that succeeds.                   *)
(***************************************************************************)
\* One attempt more than the code makes: the variant that C3 must detect.
FourAttempts == 3 + 1

UploadAttempts == 3     \* for attempt in range(1, 4)

StorageLimit == 600     \* cleanup_storage(600)

\* f"photo_{timestamp}_{unique_id}.jpg"
PhotoKey(t) == [kind |-> "photo", ts |-> t, name |-> ""]

\* the filename handed to upload_bytes
BytesKey(fn) == [kind |-> "bytes", ts |-> 0, name |-> fn]

NoneMeta == [given |-> FALSE, dict |-> EmptyDict]

Returned(st, ok, url, attempts, raised) ==
    [st |-> st, ok |-> ok, url |-> url, attempts |-> attempts, raised |-> raised]

\* upload_photo in which an error met by process_queue or cleanup_storage
\* reaches the except of the attempt, which then goes on to the next one: the
\* variant that the claim about a stored artifact must detect.
RECURSIVE photo_attempt_again(_, _, _, _, _, _, _, _)
photo_attempt_again(k, path, outs, souts, errs, files, t, st) ==
    IF k > UploadAttempts
    THEN LET q == add(st.queue, path, NoneMeta, t)
         IN  Returned([st EXCEPT !.queue = q, !.file = save(q)],
                      FALSE, NoName, UploadAttempts, FALSE)
    ELSE IF outs[k] = "upload_error"
    THEN photo_attempt_again(k + 1, path, outs, souts, errs, files, t, st)
    ELSE IF outs[k] = "insert_error"
    THEN photo_attempt_again(k + 1, path, outs, souts, errs, files, t,
                             [st EXCEPT !.bucket = @ \cup {PhotoKey(t)}])
    ELSE LET stored == [st EXCEPT !.bucket = @ \cup {PhotoKey(t)},
                                  !.photos = insert(@, Row(PhotoKey(t), t))]
             synced == process_queue(souts, files, stored)
             cleaned == cleanup_storage(StorageLimit, errs, synced)
         IN  IF (\E i \in DOMAIN souts : souts[i] # "ok")
                  \/ cleanup_raised(StorageLimit, errs, synced)
             THEN photo_attempt_again(k + 1, path, outs, <<>>, NoErrors, files, t, cleaned)
             ELSE Returned(cleaned, TRUE, PhotoKey(t), k, FALSE)

RECURSIVE photo_attempt(_, _, _, _, _, _, _, _)
photo_attempt(k, path, outs, souts, errs, files, t, st) ==
    IF k > UploadAttempts
    THEN LET q == add(st.queue, path, NoneMeta, t)
         IN  Returned([st EXCEPT !.queue = q, !.file = save(q)],
                      FALSE, NoName, UploadAttempts, FALSE)
    ELSE IF outs[k] = "upload_error"
    THEN photo_attempt(k + 1, path, outs, souts, errs, files, t, st)
    ELSE IF outs[k] = "insert_error"
    THEN photo_attempt(k + 1, path, outs, souts, errs, files, t,
                       [st EXCEPT !.bucket = @ \cup {PhotoKey(t)}])
    ELSE LET stored == [st EXCEPT !.bucket = @ \cup {PhotoKey(t)},
                                  !.photos = insert(@, Row(PhotoKey(t), t))]
             synced == process_queue(souts, files, stored)
         IN  Returned(cleanup_storage(StorageLimit, errs, synced),
                      TRUE, PhotoKey(t), k,
                      cleanup_raised(StorageLimit, errs, synced))

upload_photo(path, outs, souts, errs, files, t, st) ==
    IF path \notin files
    THEN Returned(st, FALSE, NoName, 0, FALSE)
    ELSE photo_attempt(1, path, outs, souts, errs, files, t, st)

RECURSIVE bytes_attempt(_, _, _, _, _, _)
bytes_attempt(k, fn, outs, errs, t, st) ==
    IF k > UploadAttempts
    THEN Returned(st, FALSE, NoName, UploadAttempts, FALSE)
    ELSE IF outs[k] = "upload_error"
    THEN bytes_attempt(k + 1, fn, outs, errs, t, st)
    ELSE IF outs[k] = "insert_error"
    THEN bytes_attempt(k + 1, fn, outs, errs, t,
                       [st EXCEPT !.bucket = @ \cup {BytesKey(fn)}])
    ELSE LET stored == [st EXCEPT !.bucket = @ \cup {BytesKey(fn)},
                                  !.photos = insert(@, Row(BytesKey(fn), t))]
         IN  Returned(cleanup_storage(StorageLimit, errs, stored),
                      TRUE, BytesKey(fn), k,
                      cleanup_raised(StorageLimit, errs, stored))

upload_bytes(fn, outs, errs, t, st) == bytes_attempt(1, fn, outs, errs, t, st)

(***************************************************************************)
(* The upload manager as the booth's background workers call it, one call  *)
(* at a time.                                                              *)
(***************************************************************************)
\* The service's answers are drawn for one attempt more than the code makes.
Drawn == 1..(UploadAttempts + 1)

\* The answers to the attempts: failures of either kind, then "ok" from the
\* first attempt that the service accepts.
UploadOuts ==
    {outs \in [Drawn -> Outcomes] :
        \A k \in Drawn : outs[k] = "ok" => \A j \in Drawn : j > k => outs[j] = "ok"}

\* The first attempt that the service answers with "ok", or 0.
FirstOk(outs) ==
    IF \E k \in Drawn : outs[k] = "ok"
    THEN CHOOSE k \in Drawn : outs[k] = "ok" /\ \A j \in 1..(k - 1) : outs[j] # "ok"
    ELSE 0

ByteNames == {"clip.gif"}

UploadPhoto(path, outs, souts, errs) ==
    LET r == upload_photo(path, outs, souts, errs, local_files, now, Cloud)
    IN  /\ now < MaxNow
        /\ queue' = r.st.queue
        /\ storage_file' = r.st.file
        /\ bucket' = r.st.bucket
        /\ photos' = r.st.photos
        /\ now' = now + 1
        /\ last' = [NoCall EXCEPT !.op = "upload_photo", !.path = path,
                                  !.existed = path \in local_files,
                                  !.ok = r.ok, !.url = r.url,
                                  !.attempts = r.attempts, !.first = FirstOk(outs),
                                  !.before = queue, !.raised = r.raised,
                                  !.limit = StorageLimit]
        /\ UNCHANGED <<local_files, booth, burst, pure>>

UploadBytes(fn, outs, errs) ==
    LET r == upload_bytes(fn, outs, errs, now, Cloud)
    IN  /\ now < MaxNow
        /\ queue' = r.st.queue
        /\ storage_file' = r.st.file
        /\ bucket' = r.st.bucket
        /\ photos' = r.st.photos
        /\ now' = now + 1
        /\ last' = [NoCall EXCEPT !.op = "upload_bytes", !.path = fn,
                                  !.ok = r.ok, !.url = r.url,
                                  !.attempts = r.attempts, !.first = FirstOk(outs),
                                  !.before = queue, !.raised = r.raised,
                                  !.limit = StorageLimit]
        /\ UNCHANGED <<local_files, booth, burst, pure>>

CleanupStorage(limit, errs) ==
    LET st == cleanup_storage(limit, errs, Cloud)
    IN  /\ bucket' = st.bucket
        /\ photos' = st.photos
        /\ last' = [NoCall EXCEPT !.op = "cleanup_storage", !.limit = limit,
                                  !.errs = errs,
                                  !.raised = cleanup_raised(limit, errs, Cloud),
                                  !.rows = photos, !.objects = bucket]
        /\ UNCHANGED <<queue, storage_file, local_files, now, booth, burst, pure>>

InitUpload ==
    /\ storage_file \in {NoFile, save(<<>>)}
    /\ queue = load(storage_file)
    /\ local_files = Paths
    /\ bucket = {}
    /\ photos = <<>>
    /\ now = 1
    /\ last = NoCall
    /\ BoothIdle
    /\ burst = NoBurst
    /\ pure = NoPure

NextUpload ==
    \/ \E path \in Paths, outs \in UploadOuts,
          souts \in [1..Len(get_pending(queue)) -> Outcomes],
          errs \in {e \in CleanupErrs : e.storage \cup e.db = {}} :
            UploadPhoto(path, outs, souts, errs)
    \/ \E fn \in ByteNames, outs \in UploadOuts,
          errs \in {e \in CleanupErrs : e.storage \cup e.db = {}} :
            UploadBytes(fn, outs, errs)
    \/ \E fp \in Paths : DeleteFile(fp)
    \/ Restart

SpecUpload == InitUpload /\ [][NextUpload]_vars

(***************************************************************************)
(* Retention: the table starts at or just under the limit.  Its rows are   *)
(* either rows as this program inserts them (no filename) or rows whose    *)
(* filename column is filled in.                                           *)
(***************************************************************************)
MaxBelow == 1       \* rows missing to the limit when the model starts

LegacyKey(i) == [kind |-> "legacy", ts |-> i, name |-> ""]

LegacyRows(n, named) ==
    [i \in 1..n |->
        [created_at |-> i - n,
         filename |-> IF named THEN LegacyKey(i - n) ELSE NoName,
         image_url |-> LegacyKey(i - n)]]

\* The answers of the service that the retention model draws for an upload.
RetentionOuts ==
    { [k \in Drawn |-> "ok"],
      [k \in Drawn |-> IF k = 1 THEN "insert_error" ELSE "ok"],
      [k \in Drawn |-> "upload_error"] }

InitRetention ==
    /\ storage_file = save(<<>>)
    /\ queue = load(storage_file)
    /\ local_files = Paths
    /\ \E d \in 0..MaxBelow, named \in BOOLEAN :
          /\ photos = LegacyRows(StorageLimit - d, named)
          /\ bucket = {photos[i].image_url : i \in 1..Len(photos)}
    /\ now = 1
    /\ last = NoCall
    /\ BoothIdle
    /\ burst = NoBurst
    /\ pure = NoPure

NextRetention ==
    \/ \E path \in Paths, outs \in RetentionOuts,
          souts \in [1..Len(get_pending(queue)) -> {"ok", "upload_error"}],
          errs \in CleanupErrs :
            UploadPhoto(path, outs, souts, errs)
    \/ \E fn \in ByteNames, outs \in RetentionOuts, errs \in CleanupErrs :
            UploadBytes(fn, outs, errs)
    \/ \E limit \in {StorageLimit - 1, StorageLimit}, errs \in CleanupErrs :
            CleanupStorage(limit, errs)

SpecRetention == InitRetention /\ [][NextRetention]_vars

(***************************************************************************)
(* CaptureManager (capture_modes.py).  reads[i] is whether the frame       *)
(* source delivers a frame on the i-th capture attempt; a frame is named   *)
(* by the attempt that read it.                                            *)
(***************************************************************************)
BURST_COUNT == 4
GIF_FRAME_COUNT == 8
BurstCountdown == 4     \* show_countdown(seconds=4) before every photo but the first

MaxCount == 5           \* largest count handed to capture_burst

\* A pass that keeps an image for a failed read too: the variant that C10 must detect.
burst_frame_unpaired(ret, i, t, acc) ==
    [acc EXCEPT !.attempts = @ + 1,
                !.images = Append(@, i),
                !.timestamps = IF ret THEN Append(@, t) ELSE @]

\* One pass of the loop of capture_burst: attempt i at time t.
burst_frame(ret, i, t, acc) ==
    IF ret
    THEN [acc EXCEPT !.attempts = @ + 1,
                     !.images = Append(@, i),
                     !.timestamps = Append(@, t)]
    ELSE [acc EXCEPT !.attempts = @ + 1]

RECURSIVE burst_loop(_, _, _, _, _)
burst_loop(i, count, reads, t, acc) ==
    IF i > count THEN acc
    ELSE burst_loop(i + 1, count, reads, t,
                    burst_frame(reads[i], i, t + BurstCountdown * (i - 1), acc))

\* capture_burst(cap, count=count): count 0 stands for None ("count or
\* BURST_COUNT" reads both as the default).  create_collage raises on an empty
\* list of images, and then there is no result.
capture_burst(count, reads, t) ==
    LET n == IF count = 0 THEN BURST_COUNT ELSE count
        acc == burst_loop(1, n, reads, t,
                          [attempts |-> 0, images |-> <<>>, timestamps |-> <<>>])
    IN  [raised |-> acc.images = <<>>, result |-> acc.images # <<>>,
         attempts |-> acc.attempts, images |-> acc.images,
         timestamps |-> acc.timestamps]

MaxFrames == 3          \* largest frame count handed to capture_gif

\* A pass that keeps a frame for a failed read too: the variant that C12 must detect.
gif_frame_unchecked(ret, i, acc) ==
    [acc EXCEPT !.images = Append(@, [id |-> i, order |-> "RGB"]),
                !.timestamps = Append(@, i)]

\* One pass of the loop of capture_gif: the frame read is filtered, converted
\* from BGR to RGB and kept with its time, or skipped.
gif_frame(ret, i, acc) ==
    IF ret
    THEN [acc EXCEPT !.images = Append(@, [id |-> i, order |-> "RGB"]),
                     !.timestamps = Append(@, i)]
    ELSE acc

RECURSIVE gif_loop(_, _, _, _)
gif_loop(i, frames_count, reads, acc) ==
    IF i > frames_count THEN acc
    ELSE gif_loop(i + 1, frames_count, reads, gif_frame(reads[i], i, acc))

\* imageio.mimsave(target, images): one encoded frame per image, in order; an
\* empty list raises.
mimsave(images) == [raised |-> images = <<>>, frames |-> images]

\* cv2.cvtColor(img, cv2.COLOR_RGB2BGR) for every image
bgr_images(images) == [i \in 1..Len(images) |-> [images[i] EXCEPT !.order = "BGR"]]

\* capture_gif(cap, frames=frames, save_to_disk=save_to_disk): frames 0 stands
\* for None ("frames or GIF_FRAME_COUNT" reads both as the default).
capture_gif_frames(frames, reads, save_to_disk) ==
    LET frames_count == IF frames = 0 THEN GIF_FRAME_COUNT ELSE frames
        acc == gif_loop(1, frames_count, reads, [images |-> <<>>, timestamps |-> <<>>])
        gif == mimsave(acc.images)
    IN  [raised |-> gif.raised, result |-> ~gif.raised,
         images |-> IF gif.raised THEN <<>> ELSE bgr_images(acc.images),
         timestamps |-> acc.timestamps,
         gif_path |-> IF save_to_disk /\ ~gif.raised THEN gif.frames ELSE <<>>,
         gif_bytes |-> IF ~save_to_disk /\ ~gif.raised THEN gif.frames ELSE <<>>,
         on_disk |-> save_to_disk]

\* capture_gif(cap, save_to_disk=True) as main calls it: the frames kept.
capture_gif(reads) ==
    LET r == capture_gif_frames(0, reads, TRUE)
    IN  [raised |-> r.raised, result |-> r.result,
         images |-> [i \in 1..Len(r.images) |-> r.images[i].id]]

\* SINGLE in main: "ret, fresh_frame = cap.read()" and, if ret, capture_single.
capture_single(reads) ==
    [raised |-> FALSE, result |-> reads[1],
     images |-> IF reads[1] THEN <<1>> ELSE <<>>]

(***************************************************************************)
(* capture_burst on its own: its arguments are drawn, then it is called.   *)
(***************************************************************************)
CaptureBurst ==
    /\ ~burst.called
    /\ LET r == capture_burst(burst.count, burst.reads, now)
       IN  burst' = [burst EXCEPT !.called = TRUE, !.raised = r.raised,
                                  !.attempts = r.attempts, !.images = r.images,
                                  !.timestamps = r.timestamps]
    /\ UNCHANGED <<queue, storage_file, local_files, bucket, photos, now, last, booth, pure>>

InitBurst ==
    /\ storage_file = NoFile
    /\ queue = load(storage_file)
    /\ local_files = {}
    /\ bucket = {}
    /\ photos = <<>>
    /\ now = 1
    /\ last = NoCall
    /\ BoothIdle
    /\ \E count \in 0..MaxCount, reads \in [1..MaxCount -> BOOLEAN] :
          burst = [NoBurst EXCEPT !.count = count, !.reads = reads]
    /\ pure = NoPure

NextBurst == CaptureBurst

SpecBurst == InitBurst /\ [][NextBurst]_vars

(***************************************************************************)
(* create_collage (capture_modes.py).  An image is [id, h, w]; a Python    *)
(* list is the caller's list together with the list the function works on, *)
(* which is the same object or a copy.                                     *)
(***************************************************************************)
MaxImages == 5          \* longest list of images handed to create_collage

Sizes == {2, 3}

\* The lists of images a caller can hold: image i is the frame of attempt i.
ImageLists ==
    UNION {{[i \in 1..n |-> [id |-> i, h |-> hs[i], w |-> ws[i]]] :
                hs \in [1..n -> Sizes], ws \in [1..n -> Sizes]} : n \in 0..MaxImages}

\* Working on the caller's list itself: the variant that C11 must detect.
list_alias(images) == [caller |-> images, work |-> images, shared |-> TRUE]

\* images.copy()
list_copy(images) == [caller |-> images, work |-> images, shared |-> FALSE]

\* process_images.append(x)
list_append(l, x) ==
    [l EXCEPT !.work = Append(@, x),
              !.caller = IF l.shared THEN Append(@, x) ELSE @]

\* while len(process_images) < 4: process_images.append(process_images[-1].copy())
RECURSIVE collage_pad(_)
collage_pad(l) ==
    IF Len(l.work) < 4 THEN collage_pad(list_append(l, l.work[Len(l.work)])) ELSE l

\* process_images[:4], a new list
list_first4(l) == [l EXCEPT !.work = SubSeq(@, 1, 4), !.shared = FALSE]

MinOf(S) == CHOOSE x \in S : \A y \in S : x <= y

\* cv2.resize(img, (target_w, target_h))
resize(img, tw, th) == [img EXCEPT !.h = th, !.w = tw]

\* np.hstack([a, b]) and np.vstack([a, b]) of grids [h, w, ids]
hstack(a, b) == [h |-> a.h, w |-> a.w + b.w, ids |-> a.ids \o b.ids]
vstack(a, b) == [h |-> a.h + b.h, w |-> a.w, ids |-> a.ids \o b.ids]

Cell(img) == [h |-> img.h, w |-> img.w, ids |-> <<img.id>>]

create_collage(images) ==
    IF images = <<>>
    THEN [raised |-> TRUE, images |-> images, used |-> <<>>, h |-> 0, w |-> 0, ids |-> <<>>]
    ELSE LET l == list_first4(collage_pad(list_copy(images)))
             target_h == MinOf({l.work[i].h : i \in 1..4})
             target_w == MinOf({l.work[i].w : i \in 1..4})
             resized == [i \in 1..4 |-> Cell(resize(l.work[i], target_w, target_h))]
             top_row == hstack(resized[1], resized[2])
             bottom_row == hstack(resized[3], resized[4])
             collage == vstack(top_row, bottom_row)
         IN  [raised |-> FALSE, images |-> l.caller, used |-> l.work,
              h |-> collage.h, w |-> collage.w, ids |-> collage.ids]

CreateCollage ==
    /\ pure.fn = "create_collage"
    /\ ~pure.called
    /\ pure' = [pure EXCEPT !.called = TRUE, !.result = create_collage(pure.images)]
    /\ UNCHANGED <<queue, storage_file, local_files, bucket, photos, now, last, booth, burst>>

\* The state in which only a function without side effects is called.
PureIdle ==
    /\ storage_file = NoFile
    /\ queue = load(storage_file)
    /\ local_files = {}
    /\ bucket = {}
    /\ photos = <<>>
    /\ now = 1
    /\ last = NoCall
    /\ BoothIdle
    /\ burst = NoBurst

InitCollage ==
    /\ PureIdle
    /\ \E images \in ImageLists :
          pure = [fn |-> "create_collage", called |-> FALSE, images |-> images,
                  result |-> create_collage(<<>>)]

NextCollage == CreateCollage

SpecCollage == InitCollage /\ [][NextCollage]_vars

(***************************************************************************)
(* capture_gif on its own: its arguments are drawn, then it is called.     *)
(***************************************************************************)
CaptureGif ==
    /\ pure.fn = "capture_gif"
    /\ ~pure.called
    /\ pure' = [pure EXCEPT !.called = TRUE,
                            !.result = capture_gif_frames(pure.frames, pure.reads,
                                                          pure.save_to_disk)]
    /\ UNCHANGED <<queue, storage_file, local_files, bucket, photos, now, last, booth, burst>>

InitGif ==
    /\ PureIdle
    /\ \E frames \in 0..MaxFrames, reads \in [1..GIF_FRAME_COUNT -> BOOLEAN],
          save_to_disk \in BOOLEAN :
          pure = [fn |-> "capture_gif", called |-> FALSE, frames |-> frames,
                  reads |-> reads, save_to_disk |-> save_to_disk,
                  result |-> capture_gif_frames(1, [i \in 1..GIF_FRAME_COUNT |-> FALSE], TRUE)]

NextGif == CaptureGif

SpecGif == InitGif /\ [][NextGif]_vars

(***************************************************************************)
(* filters.py: FilterType and get_filter_from_string; the filter names of  *)
(* the keyboard handler and of the gallery's buttons.                      *)
(***************************************************************************)
\* class FilterType(Enum)
FilterType == {"NONE", "GLITCH", "NEON", "DREAMY", "RETRO", "NOIR", "BW"}

\* The keys of "mapping" in get_filter_from_string, in the order of the source.
MappingKeys ==
    <<<<"N", "O", "N", "E">>, <<"N", "O", "R", "M", "A", "L">>, <<"G", "L", "I", "T", "C", "H">>, <<"N", "E", "O", "N">>, <<"C", "Y", "B", "E", "R", "P", "U", "N", "K">>, <<"D", "R", "E", "A", "M", "Y">>,
      <<"P", "A", "S", "T", "E", "L">>, <<"R", "E", "T", "R", "O">>, <<"P", "O", "L", "A", "R", "O", "I", "D">>, <<"N", "O", "I", "R">>, <<"B", "W">>, <<"B", "&", "W">>>>

\* The dict "mapping" of get_filter_from_string.
mapping ==
    [name \in {Str(MappingKeys[i]) : i \in DOMAIN MappingKeys} |->
        CASE name = "NONE" -> "NONE"
          [] name = "NORMAL" -> "NONE"
          [] name = "GLITCH" -> "GLITCH"
          [] name = "NEON" -> "NEON"
          [] name = "CYBERPUNK" -> "NEON"
          [] name = "DREAMY" -> "DREAMY"
          [] name = "PASTEL" -> "DREAMY"
          [] name = "RETRO" -> "RETRO"
          [] name = "POLAROID" -> "RETRO"
          [] name = "NOIR" -> "NOIR"
          [] name = "BW" -> "BW"
          [] name = "B&W" -> "BW"]

\* mapping.get(name_upper, FilterType.NONE)
mapping_get(name_upper, default) ==
    IF name_upper \in DOMAIN mapping THEN mapping[name_upper] ELSE default

\* get_filter_from_string whose lookup ignores the default: a name outside the
\* mapping raises KeyError.  The variant that C15 must detect.
get_filter_from_string_strict(filter_name) ==
    IF filter_name = None \/ filter_name = <<>>
    THEN [raised |-> FALSE, value |-> "NONE"]
    ELSE LET name_upper == Str(str_upper(filter_name))
         IN  IF name_upper \in DOMAIN mapping
             THEN [raised |-> FALSE, value |-> mapping[name_upper]]
             ELSE [raised |-> TRUE, value |-> "KeyError"]

\* get_filter_from_string: "not filter_name" holds of None and of the empty str.
get_filter_from_string(filter_name) ==
    IF filter_name = None \/ filter_name = <<>>
    THEN [raised |-> FALSE, value |-> "NONE"]
    ELSE LET name_upper == Str(str_upper(filter_name))
         IN  [raised |-> FALSE, value |-> mapping_get(name_upper, "NONE")]

\* The lower-case letter of a capital; every other character stays.
char_lower(c) ==
    IF \E i \in DOMAIN UpperCase : UpperCase[i] = c
    THEN LowerCase[CHOOSE i \in DOMAIN UpperCase : UpperCase[i] = c]
    ELSE c

\* Spellings of a name in capitals that differ in case only: all capitals, all
\* lower case, capitalised, its inverse, and alternating.
NameCases(u) ==
    {[i \in 1..Len(u) |-> IF i \in low THEN char_lower(u[i]) ELSE u[i]] :
        low \in {{}, 1..Len(u), 2..Len(u), {1}, {i \in 1..Len(u) : i % 2 = 0}}}

\* Names that are no key of the mapping in any case.
UnknownNames ==
    {<<"u", "n", "k", "n", "o", "w", "n">>, <<"S", "E", "P", "I", "A">>, <<" ", "B", "W">>, <<"N", "O", "I", "R", "2">>, <<"4", "2">>}

\* The arguments get_filter_from_string is called with.
FilterNames ==
    UNION {NameCases(MappingKeys[i]) : i \in DOMAIN MappingKeys}
        \cup UnknownNames \cup {<<>>, None}

\* camera_main.py, keys '1' to '6': the name each key stores.
KeyFilters ==
    <<<<"N", "O", "R", "M", "A", "L">>, <<"G", "L", "I", "T", "C", "H">>, <<"C", "Y", "B", "E", "R", "P", "U", "N", "K">>, <<"P", "A", "S", "T", "E", "L">>, <<"B", "W">>, <<"P", "O", "L", "A", "R", "O", "I", "D">>>>

\* web_gallery.py, the buttons of FILTERS_MODULE: the name each passes to setFilter.
ButtonFilters ==
    <<<<"N", "O", "R", "M", "A", "L">>, <<"G", "L", "I", "T", "C", "H">>, <<"C", "Y", "B", "E", "R", "P", "U", "N", "K">>, <<"P", "A", "S", "T", "E", "L">>, <<"B", "W">>, <<"P", "O", "L", "A", "R", "O", "I", "D">>>>

\* A call of get_filter_from_string.
GetFilterFromString(filter_name) ==
    /\ pure' = [fn |-> "get_filter_from_string", called |-> TRUE,
                filter_name |-> filter_name,
                result |-> get_filter_from_string(filter_name)]
    /\ UNCHANGED <<queue, storage_file, local_files, bucket, photos, now, last, booth, burst>>

\* main, a filter key pressed: web_gallery.current_filter = <name>
KeyFilter(key) ==
    /\ current_filter' = KeyFilters[key]
    /\ pure' = [fn |-> "key", called |-> TRUE, key |-> key]
    /\ UNCHANGED <<last_capture_time, last_command, port, current_mode, roboflow,
                   threads, crashed, cycle>>
    /\ UNCHANGED <<queue, storage_file, local_files, bucket, photos, now, last, burst, workers, sequence>>

\* /set_filter/<mode> of the web gallery: any string is stored.
set_filter(mode) ==
    /\ current_filter' = mode
    /\ pure' = [fn |-> "set_filter", called |-> TRUE, mode |-> mode]
    /\ UNCHANGED <<last_capture_time, last_command, port, current_mode, roboflow,
                   threads, crashed, cycle>>
    /\ UNCHANGED <<queue, storage_file, local_files, bucket, photos, now, last, burst, workers, sequence>>

\* main, at a trigger: filter_name = web_gallery.current_filter;
\* filter_type = get_filter_from_string(filter_name)
ReadFilter ==
    /\ pure' = [fn |-> "filter_type", called |-> TRUE,
                filter_name |-> current_filter,
                result |-> get_filter_from_string(current_filter)]
    /\ UNCHANGED <<queue, storage_file, local_files, bucket, photos, now, last, booth, burst>>

InitFilter ==
    /\ PureIdle
    /\ pure = NoPure

NextFilter ==
    \/ \E filter_name \in FilterNames : GetFilterFromString(filter_name)
    \/ \E key \in DOMAIN KeyFilters : KeyFilter(key)
    \/ \E button \in DOMAIN ButtonFilters : set_filter(ButtonFilters[button])
    \/ \E mode \in UnknownNames : set_filter(mode)
    \/ ReadFilter

SpecFilter == InitFilter /\ [][NextFilter]_vars

(***************************************************************************)
(* filters.py: apply_filter with FilterType.NONE, and apply_retro.  An     *)
(* image is a buffer with a row of 8-bit pixel values (the three channels  *)
(* of a pixel are treated alike).  The cv2 routines are modelled by what   *)
(* they compute: a normalised blur kernel, a saturating weighted sum, an   *)
(* average over the neighbours close in value.                             *)
(***************************************************************************)
MaxWidth == 3       \* longest pixel row given to apply_filter

PixelValues == {0, 100, 200, 255}

\* np.uint8 saturation of cv2 arithmetic.
saturate(v) == IF v < 0 THEN 0 ELSE IF v > 255 THEN 255 ELSE v

\* The pixel at column i of a row under cv2.BORDER_REFLECT_101.
reflect_101(px, i) ==
    IF Len(px) = 1 THEN px[1]
    ELSE IF i < 1 THEN px[2 - i]
    ELSE IF i > Len(px) THEN px[2 * Len(px) - i]
    ELSE px[i]

\* cv2.GaussianBlur(image, (0, 0), 3): each pixel becomes a weighted mean of
\* its neighbourhood, the weights positive and summing to one.
GaussianBlur(px) ==
    [i \in 1..Len(px) |->
        (reflect_101(px, i - 1) + 2 * px[i] + reflect_101(px, i + 1) + 2) \div 4]

\* cv2.addWeighted(image, 1.0 + strength, gaussian, -strength, 0) for strength 0.5.
addWeighted(px, gaussian) ==
    [i \in 1..Len(px) |-> saturate((3 * px[i] - gaussian[i] + 1) \div 2)]

\* enhance_sharpness(image, strength=0.5): the result is a new array.
enhance_sharpness(px) == addWeighted(px, GaussianBlur(px))

\* cv2.bilateralFilter(image, d=5, sigmaColor=30, sigmaSpace=30): the mean of
\* the neighbours within the diameter whose value is close to the pixel's.
bilateralFilter(px, sigmaColor) ==
    [i \in 1..Len(px) |->
        LET near == {j \in 1..Len(px) :
                        /\ j - i \in -2..2
                        /\ px[j] - px[i] \in -sigmaColor..sigmaColor}
            sum[S \in SUBSET near] ==
                IF S = {} THEN 0
                ELSE LET j == CHOOSE k \in S : TRUE IN px[j] + sum[S \ {j}]
        IN  (2 * sum[near] + Cardinality(near)) \div (2 * Cardinality(near))]

\* denoise_image(image, strength=3): sigmaColor = strength * 10
denoise_image(px, strength) == bilateralFilter(px, strength * 10)

\* apply_filter(image, FilterType.NONE).  memory maps each buffer to its
\* pixels; the result is written to a buffer that did not exist before.
apply_filter(memory, image, filter_type) ==
    LET enhanced == enhance_sharpness(memory[image])
        out == IF filter_type = "NONE" THEN denoise_image(enhanced, 3) ELSE enhanced
        fresh == Len(memory) + 1
    IN  [memory |-> Append(memory, out), image |-> fresh]

\* The pixel rows apply_filter is called with.
PixelRows == UNION {[1..n -> PixelValues] : n \in 1..MaxWidth}

\* "cream", the colour of the frame, in the order blue, green, red.
cream == <<240, 248, 255>>

\* int(row * 0.20) and int(col * 0.04)
bottom_border_of(row) == (row * 20) \div 100
side_border_of(col) == (col * 4) \div 100

\* apply_retro on an image of row by col pixels whose toned top-left pixel is
\* "pixel": cv2.copyMakeBorder(result, side, bottom, side, side, value=cream)
\* adds side rows above, bottom rows below and side columns on either side.
apply_retro(row, col, pixel) ==
    LET bottom_border == bottom_border_of(row)
        side_border == side_border_of(col)
    IN  [h |-> row + side_border + bottom_border,
         w |-> col + side_border + side_border,
         top_left |-> IF side_border > 0 THEN cream ELSE pixel]

\* image_strategy(min_size=20, ...) of the tests: the smallest side.
MinSize == 20

MaxSide == 26       \* largest side of an image given to apply_retro

\* Top-left pixels of a toned image: the blue channel ends at 0.95 * 255 - 5.
TonedPixels == {<<0, 3, 8>>, <<237, 255, 255>>}

\* A call of apply_filter(image, FilterType.NONE) on a buffer holding "row".
ApplyFilter(row, filter_type) ==
    /\ pure' = [fn |-> "apply_filter", called |-> TRUE,
                filter_type |-> filter_type,
                memory |-> <<row>>, image |-> 1,
                result |-> apply_filter(<<row>>, 1, filter_type)]
    /\ UNCHANGED <<queue, storage_file, local_files, bucket, photos, now, last, booth, burst>>

\* A call of apply_retro.
ApplyRetro(row, col, pixel) ==
    /\ pure' = [fn |-> "apply_retro", called |-> TRUE,
                row |-> row, col |-> col, pixel |-> pixel,
                result |-> apply_retro(row, col, pixel)]
    /\ UNCHANGED <<queue, storage_file, local_files, bucket, photos, now, last, booth, burst>>

InitImage ==
    /\ PureIdle
    /\ pure = NoPure

NextImage ==
    \/ \E row \in PixelRows, filter_type \in {"NONE", "ELSE"} : ApplyFilter(row, filter_type)
    \/ \E row \in MinSize..MaxSide, col \in MinSize..MaxSide, pixel \in TonedPixels :
          ApplyRetro(row, col, pixel)

SpecImage == InitImage /\ [][NextImage]_vars

(***************************************************************************)
(* gestures.py: GestureRecognizer.  A hand is the y coordinates of the     *)
(* landmarks the classifier reads; y grows downwards.                      *)
(***************************************************************************)
\* The y of a finger tip: above, level with, or below a joint at y = 1.
TipYs == {0, 1, 2}

\* Hands: every position of the five tips against joints at the same height.
Hands ==
    [thumb_tip : TipYs, thumb_base : {1},
     index_tip : TipYs, index_pip : {1},
     middle_tip : TipYs, middle_pip : {1},
     ring_tip : TipYs, ring_pip : {1},
     pinky_tip : TipYs, pinky_pip : {1}]

\* A fist with the thumb up, and a V sign.
SecondHands ==
    {[thumb_tip |-> 0, thumb_base |-> 1, index_tip |-> 2, index_pip |-> 1,
      middle_tip |-> 2, middle_pip |-> 1, ring_tip |-> 2, ring_pip |-> 1,
      pinky_tip |-> 2, pinky_pip |-> 1],
     [thumb_tip |-> 1, thumb_base |-> 1, index_tip |-> 0, index_pip |-> 1,
      middle_tip |-> 0, middle_pip |-> 1, ring_tip |-> 1, ring_pip |-> 1,
      pinky_tip |-> 2, pinky_pip |-> 1]}

\* results.multi_hand_landmarks: no hand, one hand, or two.
HandLists ==
    {<<>>} \cup {<<h>> : h \in Hands}
           \cup {<<h, g>> : h \in Hands, g \in SecondHands}

\* _classify_gesture with a V sign that ignores the ring and the little
\* finger: the variant that C19 must detect.
classify_gesture_open(landmarks) ==
    LET is_index_ext == landmarks.index_tip < landmarks.index_pip
        is_middle_ext == landmarks.middle_tip < landmarks.middle_pip
        is_ring_ext == landmarks.ring_tip < landmarks.ring_pip
        is_pinky_ext == landmarks.pinky_tip < landmarks.pinky_pip
        fingers_closed == ~is_index_ext /\ ~is_middle_ext /\ ~is_ring_ext /\ ~is_pinky_ext
    IN  IF fingers_closed /\ landmarks.thumb_tip < landmarks.thumb_base THEN "THUMBS_UP"
        ELSE IF is_index_ext /\ is_middle_ext THEN "LOVE"
        ELSE IF is_index_ext /\ ~is_middle_ext /\ ~is_ring_ext /\ ~is_pinky_ext THEN "SUS"
        ELSE "None"

\* GestureRecognizer._classify_gesture
classify_gesture(landmarks) ==
    LET is_index_ext == landmarks.index_tip < landmarks.index_pip
        is_middle_ext == landmarks.middle_tip < landmarks.middle_pip
        is_ring_ext == landmarks.ring_tip < landmarks.ring_pip
        is_pinky_ext == landmarks.pinky_tip < landmarks.pinky_pip
        fingers_closed == ~is_index_ext /\ ~is_middle_ext /\ ~is_ring_ext /\ ~is_pinky_ext
    IN  IF fingers_closed /\ landmarks.thumb_tip < landmarks.thumb_base THEN "THUMBS_UP"
        ELSE IF is_index_ext /\ is_middle_ext /\ ~is_ring_ext /\ ~is_pinky_ext THEN "LOVE"
        ELSE IF is_index_ext /\ ~is_middle_ext /\ ~is_ring_ext /\ ~is_pinky_ext THEN "SUS"
        ELSE "None"

\* GestureRecognizer.process_frame: the gesture of the first hand, the loop
\* over the hands left at "break".
process_frame(multi_hand_landmarks) ==
    IF multi_hand_landmarks = <<>> THEN "None"
    ELSE classify_gesture(multi_hand_landmarks[1])

\* A call of process_frame on a frame in which the hands are "hands".
ProcessFrame(hands) ==
    /\ pure' = [fn |-> "process_frame", called |-> TRUE, hands |-> hands,
                result |-> process_frame(hands)]
    /\ UNCHANGED <<queue, storage_file, local_files, bucket, photos, now, last, booth, burst>>

InitGesture ==
    /\ PureIdle
    /\ pure = NoPure

NextGesture == \E hands \in HandLists : ProcessFrame(hands)

SpecGesture == InitGesture /\ [][NextGesture]_vars

(***************************************************************************)
(* Background upload threads on the one module-level Sync Queue            *)
(* (camera_main.py starts a daemon thread per capture; supabase_upload.py  *)
(* shares sync_queue between them, without a lock).  A thread is switched  *)
(* between the statements of the queue's methods: mark_completed builds    *)
(* the filtered list, then binds it to self.queue, then saves.             *)
(***************************************************************************)
MaxWorkers == 2     \* background upload threads alive at a time
MaxFailures == 1    \* failures recorded in the queue before no more sweeps start

Workers == 1..MaxWorkers

\* A thread that is not inside upload_photo.
Idle == [pc |-> "idle", fp |-> "", pending |-> <<>>, i |-> 0, tmp |-> <<>>]

WorkerAt(w, st) == [workers EXCEPT !.at[w] = st]

\* upload_photo(fp) after its last failed attempt: sync_queue.add is next.
StartAdd(w, fp) ==
    /\ workers.at[w].pc = "idle"
    /\ Len(queue) < MaxQueue
    /\ now < MaxNow
    /\ workers' = WorkerAt(w, [Idle EXCEPT !.pc = "append", !.fp = fp])
    /\ UNCHANGED <<queue, storage_file, local_files, bucket, photos, now, last, burst, pure>>
    /\ UNCHANGED <<last_capture_time, last_command, port, current_mode, current_filter,
                   roboflow, threads, crashed, cycle, sequence>>

\* add: self.queue.append(item)
AppendItem(w) ==
    LET st == workers.at[w]
    IN  /\ st.pc = "append"
        /\ queue' = add(queue, st.fp, [given |-> FALSE, dict |-> EmptyDict], now)
        /\ now' = now + 1
        /\ workers' = [WorkerAt(w, [st EXCEPT !.pc = "save"]) EXCEPT !.owed = @ \cup {st.fp}]
        /\ UNCHANGED <<storage_file, local_files, bucket, photos, last, burst, pure>>
        /\ UNCHANGED <<last_capture_time, last_command, port, current_mode, current_filter,
                       roboflow, threads, crashed, cycle, sequence>>

\* upload_photo(fp) after an accepted attempt: process_queue reads the
\* pending items and returns when there are none.
StartSweep(w) ==
    LET pending == get_pending(queue)
    IN  /\ workers.at[w].pc = "idle"
        /\ pending # <<>>
        /\ Recorded(queue) < MaxFailures
        /\ Len(photos) < MaxQueue
        /\ workers' = WorkerAt(w, [Idle EXCEPT !.pc = "item", !.pending = pending, !.i = 1])
        /\ UNCHANGED <<queue, storage_file, local_files, bucket, photos, now, last, burst, pure>>
        /\ UNCHANGED <<last_capture_time, last_command, port, current_mode, current_filter,
                       roboflow, threads, crashed, cycle, sequence>>

\* process_queue: the late retry of one item, up to the call of
\* mark_completed or mark_failed.
RetryItem(w, out) ==
    LET st == workers.at[w]
        item == st.pending[st.i]
        stored == item.filepath \in local_files /\ out # "upload_error"
        ok == item.filepath \in local_files /\ out = "ok"
    IN  /\ st.pc = "item"
        /\ bucket' = IF stored THEN bucket \cup {SyncKey(item)} ELSE bucket
        /\ photos' = IF ok THEN insert(photos, Row(SyncKey(item), item.timestamp)) ELSE photos
        /\ workers' = WorkerAt(w, [st EXCEPT !.pc = IF ok THEN "filter" ELSE "mark_failed",
                                             !.fp = item.filepath])
        /\ UNCHANGED <<queue, storage_file, local_files, now, last, burst, pure>>
        /\ UNCHANGED <<last_capture_time, last_command, port, current_mode, current_filter,
                       roboflow, threads, crashed, cycle, sequence>>

\* mark_failed: the loop over self.queue
FailItem(w) ==
    LET st == workers.at[w]
    IN  /\ st.pc = "mark_failed"
        /\ queue' = mark_failed(queue, st.fp)
        /\ workers' = WorkerAt(w, [st EXCEPT !.pc = "save"])
        /\ UNCHANGED <<storage_file, local_files, bucket, photos, now, last, burst, pure>>
        /\ UNCHANGED <<last_capture_time, last_command, port, current_mode, current_filter,
                       roboflow, threads, crashed, cycle, sequence>>

\* mark_completed: [item for item in self.queue if item.filepath != filepath]
FilterItems(w) ==
    LET st == workers.at[w]
    IN  /\ st.pc = "filter"
        /\ workers' = [WorkerAt(w, [st EXCEPT !.pc = "bind", !.tmp = mark_completed(queue, st.fp)])
                           EXCEPT !.owed = @ \ {st.fp}]
        /\ UNCHANGED <<queue, storage_file, local_files, bucket, photos, now, last, burst, pure>>
        /\ UNCHANGED <<last_capture_time, last_command, port, current_mode, current_filter,
                       roboflow, threads, crashed, cycle, sequence>>

\* mark_completed: self.queue = <the filtered list>
BindItems(w) ==
    LET st == workers.at[w]
    IN  /\ st.pc = "bind"
        /\ queue' = st.tmp
        /\ workers' = [WorkerAt(w, [st EXCEPT !.pc = "save", !.tmp = <<>>])
                           EXCEPT !.owed = @ \ {st.fp}]
        /\ UNCHANGED <<storage_file, local_files, bucket, photos, now, last, burst, pure>>
        /\ UNCHANGED <<last_capture_time, last_command, port, current_mode, current_filter,
                       roboflow, threads, crashed, cycle, sequence>>

\* self.save() at the end of add, mark_completed and mark_failed; the
\* sweep then goes on to its next item, and the thread ends after the last.
SaveQueue(w) ==
    LET st == workers.at[w]
    IN  /\ st.pc = "save"
        /\ storage_file' = save(queue)
        /\ workers' = WorkerAt(w, IF st.i < Len(st.pending)
                                  THEN [st EXCEPT !.pc = "item", !.i = @ + 1]
                                  ELSE Idle)
        /\ UNCHANGED <<queue, local_files, bucket, photos, now, last, burst, pure>>
        /\ UNCHANGED <<last_capture_time, last_command, port, current_mode, current_filter,
                       roboflow, threads, crashed, cycle, sequence>>

InitWorkers ==
    /\ storage_file = NoFile
    /\ queue = load(storage_file)
    /\ local_files = Paths
    /\ bucket = {}
    /\ photos = <<>>
    /\ now = 1
    /\ last = NoCall
    /\ last_capture_time = 0
    /\ last_command = "NORMAL"
    /\ port = PortOpen
    /\ current_mode = "SINGLE"
    /\ current_filter = DefaultFilter
    /\ roboflow = FALSE
    /\ threads = {}
    /\ crashed = FALSE
    /\ cycle = NoCycle
    /\ workers = [at |-> [w \in Workers |-> Idle], owed |-> {}]
    /\ sequence = NoSequence
    /\ burst = NoBurst
    /\ pure = NoPure

NextWorkers ==
    \E w \in Workers :
        \/ \E fp \in Paths : StartAdd(w, fp)
        \/ AppendItem(w)
        \/ StartSweep(w)
        \/ \E out \in Outcomes : RetryItem(w, out)
        \/ FailItem(w)
        \/ FilterItems(w)
        \/ BindItems(w)
        \/ SaveQueue(w)

SpecWorkers == InitWorkers /\ [][NextWorkers]_vars

(***************************************************************************)
(* Detections and the animations they trigger (roboflow_detector.py).  A   *)
(* confidence is a number of hundredths; a class name is a Python str.     *)
(***************************************************************************)
AnimationType == {"NORMAL", "WINK", "FLASH", "LOVE", "SUS", "RAINBOW", "WELCOME", "CUSTOM"}

\* str.lower()
str_lower(s) == [i \in 1..Len(s) |-> char_lower(s[i])]

\* key in s, for two str values
str_in(key, s) ==
    \E i \in 0..(Len(s) - Len(key)) : SubSeq(s, i + 1, i + Len(key)) = key

\* default_mappings, in the order of the dict literal
default_mappings ==
    << [key |-> <<"h", "e", "a", "r", "t">>, animation |-> "LOVE"],
       [key |-> <<"s", "t", "a", "r">>, animation |-> "RAINBOW"],
       [key |-> <<"h", "a", "t">>, animation |-> "WINK"],
       [key |-> <<"g", "l", "a", "s", "s", "e", "s">>, animation |-> "SUS"],
       [key |-> <<"m", "a", "s", "c", "o", "t">>, animation |-> "WELCOME"] >>

\* get_animation_for_detection refusing a confidence equal to the threshold:
\* the variant that the claim about the threshold must detect.
get_animation_for_detection_above(self, detection) ==
    IF detection.confidence <= self.confidence_threshold THEN "None"
    ELSE "CUSTOM"

get_animation_for_detection(self, detection) ==
    IF detection.confidence < self.confidence_threshold THEN "None"
    ELSE LET class_name == str_lower(detection.class_name)
             hits == {i \in DOMAIN default_mappings : str_in(default_mappings[i].key, class_name)}
         IN  IF class_name \in DOMAIN self.animation_mappings
             THEN self.animation_mappings[class_name]
             ELSE IF hits # {}
                  THEN default_mappings[CHOOSE i \in hits : \A j \in hits : i <= j].animation
                  ELSE "CUSTOM"

RECURSIVE get_triggered_animations(_, _)
get_triggered_animations(self, detections) ==
    IF detections = <<>> THEN <<>>
    ELSE LET det == Head(detections)
             animation == get_animation_for_detection(self, det)
             rest == get_triggered_animations(self, Tail(detections))
         IN  IF det.confidence >= self.confidence_threshold /\ animation # "None"
             THEN <<[detection |-> det, animation |-> animation]>> \o rest
             ELSE rest

MaxDetections == 2      \* longest list of detections explored

Thresholds == {50, 80}
Confidences == {0, 50, 80, 100}
ClassNames ==
    { <<"h", "e", "a", "r", "t">>, <<"H", "e", "a", "r", "t">>,
      <<"r", "e", "d", "h", "a", "t">>, <<"c", "u", "p">> }

\* animation_mappings: none given, an override of a default, a class without
\* a default.
AnimationMappings ==
    { <<>>,
      [k \in {<<"h", "e", "a", "r", "t">>} |-> "WINK"],
      [k \in {<<"c", "u", "p">>} |-> "FLASH"] }

Detectors == [confidence_threshold : Thresholds, animation_mappings : AnimationMappings]

Detections == [class_name : ClassNames, confidence : Confidences]

DetectionLists == UNION {[1..n -> Detections] : n \in 0..MaxDetections}

\* detector.get_animation_for_detection(detection), for a detection of the list
GetAnimationForDetection(i) ==
    /\ pure.fn = "detector"
    /\ i \in DOMAIN pure.detections
    /\ pure' = [fn |-> "get_animation_for_detection", called |-> TRUE, self |-> pure.self,
                detections |-> pure.detections, detection |-> pure.detections[i],
                result |-> get_animation_for_detection(pure.self, pure.detections[i])]
    /\ UNCHANGED <<queue, storage_file, local_files, bucket, photos, now, last, booth, burst>>

\* detector.get_triggered_animations(detections)
GetTriggeredAnimations ==
    /\ pure.fn = "detector"
    /\ pure' = [fn |-> "get_triggered_animations", called |-> TRUE, self |-> pure.self,
                detections |-> pure.detections,
                result |-> get_triggered_animations(pure.self, pure.detections)]
    /\ UNCHANGED <<queue, storage_file, local_files, bucket, photos, now, last, booth, burst>>

\* RoboflowDetector(...) constructed, and a frame's detections at hand.
InitDetector ==
    /\ PureIdle
    /\ \E self \in Detectors, detections \in DetectionLists :
          pure = [fn |-> "detector", called |-> FALSE, self |-> self, detections |-> detections]

NextDetector ==
    \/ \E i \in 1..MaxDetections : GetAnimationForDetection(i)
    \/ GetTriggeredAnimations

SpecDetector == InitDetector /\ [][NextDetector]_vars

(***************************************************************************)
(* The booth control loop (camera_main.py, main): one cycle of "while      *)
(* True" is one step.                                                      *)
(***************************************************************************)
CAPTURE_COOLDOWN == 6

MaxClock == 14          \* last reading of the clock explored by the booth model

Gestures == {"NONE", "THUMBS_UP", "LOVE", "SUS"}
Animations == {"NONE", "LOVE", "SUS", "RAINBOW", "WELCOME", "WINK"}
ModeValues == {"SINGLE", "BURST", "GIF", "burst"}
\* Time between two readings of the clock: none, exactly the cooldown, just over it.
Dts == {0, CAPTURE_COOLDOWN, CAPTURE_COOLDOWN + 1}

AllFrames == [i \in 1..GIF_FRAME_COUNT |-> TRUE]
NoFrames == [i \in 1..GIF_FRAME_COUNT |-> FALSE]
BoothReads == {AllFrames, NoFrames, [AllFrames EXCEPT ![1] = FALSE]}

\* The gesture before the detector: the variant of current_command that C13 must detect.
current_command_gesture_first(gesture, animation) ==
    IF gesture = "THUMBS_UP" THEN "PHOTO_TRIGGER"
    ELSE IF gesture \in {"LOVE", "SUS"} THEN gesture
    ELSE IF animation \in {"LOVE", "SUS", "RAINBOW", "WELCOME"} THEN animation
    ELSE "NORMAL"

\* The command of the cycle: the detector's animation, then the gesture.
current_command(gesture, animation) ==
    LET detected == IF animation \in {"LOVE", "SUS", "RAINBOW", "WELCOME"}
                    THEN animation ELSE "NORMAL"
    IN  IF gesture = "THUMBS_UP" THEN "PHOTO_TRIGGER"
        ELSE IF gesture = "LOVE" /\ detected = "NORMAL" THEN "LOVE"
        ELSE IF gesture = "SUS" /\ detected = "NORMAL" THEN "SUS"
        ELSE detected

\* The cooldown test with >= for >: the variant that C1 must detect.
cooldown_reached(t, lct) == t - lct >= CAPTURE_COOLDOWN

\* time.time() - last_capture_time > CAPTURE_COOLDOWN
cooldown_elapsed(t, lct) == t - lct > CAPTURE_COOLDOWN

\* ArduinoBridge.send_command: the write succeeds or raises, and a write that
\* raises is followed by connect(), which opens the port or leaves it None.
send_command(p, command, wr, conn) ==
    IF p.conn = "open"
    THEN IF wr = "ok" THEN [p EXCEPT !.sink = command]
         ELSE [p EXCEPT !.conn = IF conn THEN "open" ELSE "none"]
    ELSE p

\* The commands a call of send_command puts on the wire.
Written(p, command, wr) == IF p.conn = "open" /\ wr = "ok" THEN <<command>> ELSE <<>>

\* A call of send_command writes the command that the sink received last.
Repeats(p, command, wr) == Written(p, command, wr) # <<>> /\ p.sink = command

\* The capture of an accepted trigger, by mode; any mode but BURST and GIF is SINGLE.
capture(mode, reads, t) ==
    IF mode = "BURST" THEN capture_burst(0, reads, t)
    ELSE IF mode = "GIF" THEN capture_gif(reads)
    ELSE capture_single(reads)

\* final_path of the artifact of a capture at time t.
FinalPath(mode, t) ==
    [kind |-> IF mode = "GIF" THEN "animation"
              ELSE IF mode = "BURST" THEN "mascot_burst" ELSE "mascot_photo",
     ts |-> t]

\* The network calls the loop itself makes in a cycle that has a frame:
\* "if roboflow and roboflow.is_available(): roboflow.detect(frame)" posts the
\* frame with requests.post and waits for the answer, up to TIMEOUT_SECONDS.
main_network(detector) == IF detector THEN <<"detect">> ELSE <<>>

\* The reads of the frame source that the capture of a mode makes for its frames.
CaptureReads(mode) ==
    IF mode = "BURST" THEN BURST_COUNT
    ELSE IF mode = "GIF" THEN GIF_FRAME_COUNT
    ELSE 1

\* last_command left as it was by a trigger cycle: the variant that C14 must detect.
after_trigger_kept(lc) == lc

\* if current_command == "PHOTO_TRIGGER": last_command = "PHOTO_TRIGGER"
after_trigger(lc) == "PHOTO_TRIGGER"

\* "Send Command": what the end of the cycle sends for the cycle's command, or "NONE".
ambient_send(command, lc) ==
    IF command # "PHOTO_TRIGGER" /\ command # "NORMAL"
    THEN IF command # lc THEN command ELSE "NONE"
    ELSE IF command = "NORMAL" /\ lc # "NORMAL" THEN "NORMAL"
    ELSE "NONE"

\* A cycle whose preview read fails: "if not ret: continue".
Skip(dt) ==
    /\ ~crashed
    /\ now + dt <= MaxClock
    /\ now' = now + dt
    /\ cycle' = [NoCycle EXCEPT !.outcome = "no_frame"]
    /\ UNCHANGED <<last_capture_time, last_command, port, current_mode, current_filter,
                   roboflow, threads, crashed, local_files>>
    /\ UNCHANGED <<queue, storage_file, bucket, photos, last, burst, pure, workers, sequence>>

\* A cycle whose command is PHOTO_TRIGGER.
Trigger(gesture, animation, dt, reads, write_ok, partial, wr, conn) ==
    LET t == now + dt
        accepted == cooldown_elapsed(t, last_capture_time)
        mode == current_mode
        shot == capture(mode, reads, t)
        path == FinalPath(mode, t)
        saved == IF shot.raised THEN mode = "GIF" /\ partial
                 ELSE shot.result /\ (mode = "GIF" \/ write_ok)
        files == IF saved THEN local_files \cup {path} ELSE local_files
        upload == shot.result /\ path \in files
    IN  /\ ~crashed
        /\ t <= MaxClock
        /\ now' = t
        /\ current_mode' = current_mode
        /\ current_filter' = current_filter
        /\ roboflow' = roboflow
        /\ IF accepted
           THEN /\ last_capture_time' = t
                /\ port' = send_command(port, "PHOTO", wr, conn)
                /\ local_files' = files
                /\ crashed' = shot.raised
                /\ threads' = IF upload THEN threads \cup {path} ELSE threads
                /\ last_command' = IF shot.raised THEN last_command
                                   ELSE after_trigger(last_command)
                /\ cycle' = [gesture |-> gesture, animation |-> animation,
                             main_network |-> main_network(roboflow),
                             events |-> <<"PHOTO">> \o
                                        [i \in 1..CaptureReads(mode) |-> "read"],
                             command |-> "PHOTO_TRIGGER",
                             elapsed |-> t - last_capture_time,
                             accepted |-> TRUE, mode |-> mode,
                             frames |-> Len(shot.images),
                             written |-> Written(port, "PHOTO", wr),
                             repeated |-> Repeats(port, "PHOTO", wr),
                             wrote_file |-> saved,
                             dispatched |-> upload,
                             outcome |-> IF shot.raised THEN "raised"
                                         ELSE IF ~shot.result THEN "silent"
                                         ELSE IF upload THEN "uploading"
                                         ELSE "no_file_error"]
           ELSE /\ last_command' = after_trigger(last_command)
                /\ cycle' = [NoCycle EXCEPT !.gesture = gesture,
                                            !.animation = animation,
                                            !.main_network = main_network(roboflow),
                                            !.command = "PHOTO_TRIGGER",
                                            !.elapsed = t - last_capture_time,
                                            !.outcome = "suppressed"]
                /\ UNCHANGED <<last_capture_time, port, local_files, crashed, threads>>
        /\ UNCHANGED <<queue, storage_file, bucket, photos, last, burst, pure, workers, sequence>>

\* A cycle whose command is NORMAL or an animation.
Ambient(gesture, animation, dt, wr, conn) ==
    LET t == now + dt
        command == current_command(gesture, animation)
        send == ambient_send(command, last_command)
    IN  /\ ~crashed
        /\ t <= MaxClock
        /\ command # "PHOTO_TRIGGER"
        /\ now' = t
        /\ port' = IF send = "NONE" THEN port ELSE send_command(port, send, wr, conn)
        /\ last_command' = command
        /\ cycle' = [NoCycle EXCEPT !.gesture = gesture,
                                    !.animation = animation,
                                    !.main_network = main_network(roboflow),
                                    !.events = IF send = "NONE" THEN <<>> ELSE <<send>>,
                                    !.command = command,
                                    !.elapsed = t - last_capture_time,
                                    !.written = IF send = "NONE" THEN <<>>
                                                ELSE Written(port, send, wr),
                                    !.repeated = send # "NONE"
                                                  /\ Repeats(port, send, wr),
                                    !.outcome = "ambient"]
        /\ UNCHANGED <<last_capture_time, current_mode, current_filter, roboflow,
                       threads, crashed, local_files>>
        /\ UNCHANGED <<queue, storage_file, bucket, photos, last, burst, pure, workers, sequence>>

\* One pass of "while True".
Cycle(preview, gesture, animation, dt, reads, write_ok, partial, wr, conn) ==
    IF ~preview THEN Skip(dt)
    ELSE IF current_command(gesture, animation) = "PHOTO_TRIGGER"
    THEN Trigger(gesture, animation, dt, reads, write_ok, partial, wr, conn)
    ELSE Ambient(gesture, animation, dt, wr, conn)

\* /set_mode/<mode> of the web gallery: any string is stored.
SetMode(mode) ==
    /\ ~crashed
    /\ current_mode' = mode
    /\ UNCHANGED <<last_capture_time, last_command, port, current_filter, roboflow,
                   threads, crashed, cycle>>
    /\ UNCHANGED <<queue, storage_file, local_files, bucket, photos, now, last, burst, pure, workers, sequence>>

InitBooth ==
    /\ storage_file = NoFile
    /\ queue = load(storage_file)
    /\ local_files = {}
    /\ bucket = {}
    /\ photos = <<>>
    /\ now = CAPTURE_COOLDOWN + 1
    /\ last = NoCall
    /\ last_capture_time = 0
    /\ last_command = "NORMAL"
    /\ port \in {PortOpen, [PortOpen EXCEPT !.conn = "none"]}
    /\ current_mode = "SINGLE"
    /\ current_filter = DefaultFilter
    /\ roboflow \in BOOLEAN
    /\ threads = {}
    /\ crashed = FALSE
    /\ cycle = NoCycle
    /\ workers = NoWorkers
    /\ sequence = NoSequence
    /\ burst = NoBurst
    /\ pure = NoPure

\* Signalling: every gesture and animation, with a serial port, a frame source
\* and a disk that do not fail.
NextBooth ==
    \E preview \in BOOLEAN, dt \in Dts :
    \E gesture \in IF preview THEN Gestures ELSE {"NONE"},
       animation \in IF preview /\ roboflow THEN Animations ELSE {"NONE"} :
        Cycle(preview, gesture, animation, dt, AllFrames, TRUE, FALSE, "ok", TRUE)

SpecBooth == InitBooth /\ [][NextBooth]_vars

\* The cycle drawn reads the frame source for a capture.
Captures(preview, gesture, dt) ==
    /\ preview
    /\ current_command(gesture, "NONE") = "PHOTO_TRIGGER"
    /\ cooldown_elapsed(now + dt, last_capture_time)

\* Capturing: every mode, a frame source and a disk that fail, and a serial
\* port that does not.  The inputs that the cycle drawn does not read are fixed.
NextCapture ==
    \/ \E preview \in BOOLEAN, dt \in Dts :
       \E gesture \in IF preview THEN {"NONE", "THUMBS_UP"} ELSE {"NONE"} :
       \E reads \in IF Captures(preview, gesture, dt) THEN BoothReads ELSE {AllFrames},
          write_ok \in IF Captures(preview, gesture, dt) /\ current_mode # "GIF"
                       THEN BOOLEAN ELSE {TRUE},
          partial \in IF Captures(preview, gesture, dt) /\ current_mode = "GIF"
                      THEN BOOLEAN ELSE {FALSE} :
            Cycle(preview, gesture, "NONE", dt, reads, write_ok, partial, "ok", TRUE)
    \/ \E mode \in ModeValues : SetMode(mode)

SpecCapture == InitBooth /\ [][NextCapture]_vars

(***************************************************************************)
(* arduino_bridge.py: ArduinoBridge over a serial device that comes and    *)
(* goes.  port.device tells whether serial.Serial(port) can open it.       *)
(***************************************************************************)
Commands == {"NORMAL", "PHOTO", "LOVE", "SUS", "RAINBOW", "WELCOME"}

\* ArduinoBridge.connect: serial_conn is the opened port, or None after
\* serial.SerialException.
connect(p) == [p EXCEPT !.conn = IF p.device THEN "open" ELSE "none"]

\* A call of send_command by the loop.  The write to an open port raises when
\* the device is gone and may raise while it is there.
SendCommand(command, wr) ==
    /\ port.conn = "open" /\ ~port.device => wr = "error"
    /\ port' = send_command(port, command, wr, port.device)
    /\ pure' = [fn |-> "send_command", called |-> TRUE, command |-> command,
                written |-> Written(port, command, wr),
                skipped |-> port.conn # "open",
                reconnect |-> port.conn = "open" /\ wr # "ok",
                raised |-> FALSE]
    /\ UNCHANGED <<last_capture_time, last_command, current_mode, current_filter, roboflow,
                   threads, crashed, cycle>>
    /\ UNCHANGED <<queue, storage_file, local_files, bucket, photos, now, last, burst, workers, sequence>>

\* The device is plugged in, or pulled out.
Plug(present) ==
    /\ port.device # present
    /\ port' = [port EXCEPT !.device = present]
    /\ UNCHANGED <<last_capture_time, last_command, current_mode, current_filter, roboflow,
                   threads, crashed, cycle>>
    /\ UNCHANGED <<queue, storage_file, local_files, bucket, photos, now, last, burst, pure, workers, sequence>>

\* ArduinoBridge(port="COM4"): __init__ calls connect() once.
InitSerial ==
    /\ storage_file = NoFile
    /\ queue = load(storage_file)
    /\ local_files = {}
    /\ bucket = {}
    /\ photos = <<>>
    /\ now = 1
    /\ last = NoCall
    /\ last_capture_time = 0
    /\ last_command = "NORMAL"
    /\ \E device \in BOOLEAN : port = connect([PortOpen EXCEPT !.device = device])
    /\ current_mode = "SINGLE"
    /\ current_filter = DefaultFilter
    /\ roboflow = FALSE
    /\ threads = {}
    /\ crashed = FALSE
    /\ cycle = NoCycle
    /\ workers = NoWorkers
    /\ sequence = NoSequence
    /\ burst = NoBurst
    /\ pure = NoPure

NextSerial ==
    \/ \E command \in Commands, wr \in {"ok", "error"} : SendCommand(command, wr)
    \/ \E present \in BOOLEAN : Plug(present)

SpecSerial == InitSerial /\ [][NextSerial]_vars

\* The loop keeps sending commands: NORMAL and the ambient commands alternate
\* as long as people move in front of the camera.
SpecSerialFair ==
    SpecSerial /\ WF_vars(\E command \in Commands, wr \in {"ok", "error"} :
                              SendCommand(command, wr))

(***************************************************************************)
(* settings.py: Config.load and Config.validate; camera_main.py: the       *)
(* start of main() up to "while True".                                     *)
(***************************************************************************)
\* An environment variable that is not set.
Unset == "<unset>"

\* os.environ.get(name, default)
environ_get(value, default) == IF value = Unset THEN default ELSE value

\* Python's "a or b" on str values.
str_or(a, b) == IF a = "" THEN b ELSE a

\* Config.load: the legacy config.py first, then the environment.
Config_load(env) ==
    [supabase_url |->
        str_or(environ_get(env.SUPABASE_URL, env.legacy_url),
               environ_get(env.NEXT_PUBLIC_SUPABASE_URL, "")),
     supabase_key |->
        str_or(environ_get(env.SUPABASE_KEY, env.legacy_key),
               environ_get(env.NEXT_PUBLIC_SUPABASE_ANON_KEY, ""))]

\* Config.validate: ValueError with the errors collected, or True.
validate(cfg) ==
    LET e1 == IF cfg.supabase_url = "" THEN <<"Missing SUPABASE_URL">> ELSE <<>>
        errors == IF cfg.supabase_key = "" THEN Append(e1, "Missing SUPABASE_KEY") ELSE e1
    IN  [raised |-> errors # <<>>, errors |-> errors]

\* The process from "from settings import settings" to "while True": the
\* module-level "settings = Config.load()", then main(), which starts the
\* gallery and remote threads, builds the bridge, the recogniser and the
\* managers, opens a webcam and returns only if none opens.  validate is the
\* list of calls of Config.validate on the way: there is none.
main_startup(env, camera) ==
    [settings |-> Config_load(env),
     validate |-> <<>>,
     raised |-> FALSE,
     loop |-> camera]

\* The values of a variable of the environment and of the legacy config.py.
EnvValues == {Unset, "", "env"}
LegacyValues == {"", "legacy"}

Environments ==
    [SUPABASE_URL : EnvValues, NEXT_PUBLIC_SUPABASE_URL : EnvValues,
     SUPABASE_KEY : EnvValues, NEXT_PUBLIC_SUPABASE_ANON_KEY : EnvValues,
     legacy_url : LegacyValues, legacy_key : LegacyValues]

\* cfg = Config.load(); cfg.validate(), as the test does.
ConfigValidate(env) ==
    /\ pure' = [fn |-> "validate", called |-> TRUE, env |-> env,
                cfg |-> Config_load(env), result |-> validate(Config_load(env))]
    /\ UNCHANGED <<queue, storage_file, local_files, bucket, photos, now, last, booth, burst>>

\* The booth is started in an environment, with or without a webcam.
MainStartup(env, camera) ==
    /\ pure' = [fn |-> "main", called |-> TRUE, env |-> env, camera |-> camera,
                result |-> main_startup(env, camera)]
    /\ UNCHANGED <<queue, storage_file, local_files, bucket, photos, now, last, booth, burst>>

InitStartup ==
    /\ PureIdle
    /\ pure = NoPure

NextStartup ==
    \/ \E env \in Environments : ConfigValidate(env)
    \/ \E env \in Environments, camera \in BOOLEAN : MainStartup(env, camera)

SpecStartup == InitStartup /\ [][NextStartup]_vars

(***************************************************************************)
(* remote_control.py: the callback subscribed to the broadcast channel,    *)
(* and the other writers of web_gallery.current_filter and current_mode.   *)
(***************************************************************************)
\* A key that the event's dict does not hold.
Missing == <<"Missing">>

\* dict.get(key, default) of an event's field.
event_get(value, default) == IF value = Missing THEN default ELSE value

\* on_event(payload), from the filter and the mode it finds: event is
\* payload.get('payload', {}).  upper() of None raises AttributeError and
\* the assignment is not made.
on_event(event, filter, mode) ==
    LET event_type == event.type
    IN  IF event_type = "SET_FILTER"
        THEN LET value == event_get(event.filter, <<>>)
             IN  IF value = None
                 THEN [raised |-> TRUE, current_filter |-> filter, current_mode |-> mode]
                 ELSE [raised |-> FALSE, current_filter |-> str_upper(value),
                       current_mode |-> mode]
        ELSE IF event_type = "SET_MODE"
        THEN LET value == event_get(event.mode, <<>>)
             IN  IF value = None
                 THEN [raised |-> TRUE, current_filter |-> filter, current_mode |-> mode]
                 ELSE [raised |-> FALSE, current_filter |-> filter,
                       current_mode |-> Str(str_upper(value))]
        ELSE [raised |-> FALSE, current_filter |-> filter, current_mode |-> mode]

\* The values of the key 'filter' and of the key 'mode' in the events received.
EventFilters == {<<"g", "l", "i", "t", "c", "h">>, <<"N", "e", "o", "n">>, <<"B", "W">>, <<"s", "e", "p", "i", "a">>, <<>>, None, Missing}
EventModes == {<<"b", "u", "r", "s", "t">>, <<"G", "i", "f">>, <<"S", "I", "N", "G", "L", "E">>, <<"v", "i", "d", "e", "o">>, <<>>, None, Missing}

\* The events received: those that set the filter, those that set the mode,
\* and those of another type or of none.
Events ==
    [type : {"SET_FILTER"}, filter : EventFilters, mode : {Missing, <<"b", "u", "r", "s", "t">>}]
        \cup [type : {"SET_MODE"}, filter : {Missing, <<"g", "l", "i", "t", "c", "h">>}, mode : EventModes]
        \cup [type : {"PING", "None"}, filter : {<<"g", "l", "i", "t", "c", "h">>}, mode : {<<"b", "u", "r", "s", "t">>}]

\* The broadcast callback runs on the subscription thread.
OnEvent(event) ==
    LET after == on_event(event, current_filter, current_mode)
    IN  /\ current_filter' = after.current_filter
        /\ current_mode' = after.current_mode
        /\ pure' = [fn |-> "on_event", called |-> TRUE, event |-> event,
                    raised |-> after.raised]
        /\ UNCHANGED <<last_capture_time, last_command, port, roboflow, threads,
                       crashed, cycle>>
        /\ UNCHANGED <<queue, storage_file, local_files, bucket, photos, now, last, burst, workers, sequence>>

InitRemote ==
    /\ PureIdle
    /\ pure = NoPure

\* The writers of the two fields, one assignment at a time in any order: the
\* subscription thread, the gallery's routes, and the keys of the main loop.
NextRemote ==
    \/ \E event \in Events : OnEvent(event)
    \/ \E button \in DOMAIN ButtonFilters : set_filter(ButtonFilters[button])
    \/ \E key \in DOMAIN KeyFilters : KeyFilter(key)
    \/ \E mode \in ModeValues : SetMode(mode)

SpecRemote == InitRemote /\ [][NextRemote]_vars

(***************************************************************************)
(* A capture sequence statement by statement (camera_main.py, main, from   *)
(* the accepted trigger), while the gallery's routes and the subscription  *)
(* thread write web_gallery.current_mode and web_gallery.current_filter.   *)
(***************************************************************************)
\* The branch of "if mode == 'BURST' ... elif mode == 'GIF' ... else".
capture_branch(mode) ==
    IF mode = "BURST" THEN "BURST" ELSE IF mode = "GIF" THEN "GIF" ELSE "SINGLE"

\* Iterations of the branch's loop over the frame source.
frames_of(branch) ==
    IF branch = "BURST" THEN BURST_COUNT
    ELSE IF branch = "GIF" THEN GIF_FRAME_COUNT
    ELSE 1

\* A frame filtered with the filter the gallery shows at that moment: the
\* variant that the claim about a sequence in flight must detect.
frame_filter_shared(seq) == get_filter_from_string(current_filter).value

\* apply_filter(frame, filter_type): the filter_type the sequence was called with
frame_filter(seq) == seq.filter_type

\* mode = web_gallery.current_mode
ReadMode ==
    /\ ~sequence.active
    /\ ~crashed
    /\ sequence' = [NoSequence EXCEPT !.active = TRUE, !.pc = "filter", !.mode = current_mode]
    /\ UNCHANGED <<queue, storage_file, local_files, bucket, photos, now, last, burst, pure>>
    /\ UNCHANGED <<last_capture_time, last_command, port, current_mode, current_filter,
                   roboflow, threads, crashed, cycle, workers>>

\* filter_name = web_gallery.current_filter
\* filter_type = get_filter_from_string(filter_name)
ReadFilterName ==
    /\ sequence.pc = "filter"
    /\ sequence' = [sequence EXCEPT !.pc = "capture", !.filter_name = current_filter,
                                    !.filter_type = get_filter_from_string(current_filter).value]
    /\ UNCHANGED <<queue, storage_file, local_files, bucket, photos, now, last, burst, pure>>
    /\ UNCHANGED <<last_capture_time, last_command, port, current_mode, current_filter,
                   roboflow, threads, crashed, cycle, workers>>

\* One iteration of the branch's loop: cap.read(), and apply_filter on the
\* frame when there is one.
CaptureFrame(ret) ==
    LET branch == capture_branch(sequence.mode)
    IN  /\ sequence.pc = "capture"
        /\ sequence.i < frames_of(branch)
        /\ sequence' = [sequence EXCEPT
                !.i = @ + 1,
                !.frames = IF ret
                           THEN Append(@, [branch |-> branch, filter |-> frame_filter(sequence)])
                           ELSE @]
        /\ UNCHANGED <<queue, storage_file, local_files, bucket, photos, now, last, burst, pure>>
        /\ UNCHANGED <<last_capture_time, last_command, port, current_mode, current_filter,
                       roboflow, threads, crashed, cycle, workers>>

\* The branch returns its result; the loop of main goes on.
EndSequence ==
    /\ sequence.pc = "capture"
    /\ sequence.i = frames_of(capture_branch(sequence.mode))
    /\ sequence' = [sequence EXCEPT !.active = FALSE, !.pc = "idle"]
    /\ UNCHANGED <<queue, storage_file, local_files, bucket, photos, now, last, burst, pure>>
    /\ UNCHANGED <<last_capture_time, last_command, port, current_mode, current_filter,
                   roboflow, threads, crashed, cycle, workers>>

\* The broadcasts and the requests that arrive during a sequence.
SequenceEvents ==
    {event \in Events : \/ event.type = "SET_FILTER" /\ event.filter \in {<<"g", "l", "i", "t", "c", "h">>, <<"B", "W">>}
                        \/ event.type = "SET_MODE" /\ event.mode \in {<<"b", "u", "r", "s", "t">>, <<"G", "i", "f">>, <<"v", "i", "d", "e", "o">>}}

InitSequence ==
    /\ PureIdle
    /\ pure = NoPure

NextSequence ==
    \/ ReadMode
    \/ ReadFilterName
    \/ \E ret \in BOOLEAN : CaptureFrame(ret)
    \/ EndSequence
    \/ \E event \in SequenceEvents : OnEvent(event)
    \/ \E button \in {1, 2} : set_filter(ButtonFilters[button])
    \/ \E mode \in ModeValues : SetMode(mode)

SpecSequence == InitSequence /\ [][NextSequence]_vars

(***************************************************************************)
(* Properties of the upload manager.                                       *)
(***************************************************************************)
\* C3: upload_photo makes at most 3 attempts and stops at the first that
\* succeeds, returning its URL; when all 3 fail it returns None and the path is
\* appended once to the Sync Queue; upload_bytes on exhaustion returns None and
\* leaves the Sync Queue as it was.
C3_ThreeAttempts ==
    /\ (last.op = "upload_photo" /\ last.existed) =>
          /\ last.attempts <= 3
          /\ last.ok <=> last.first \in 1..3
          /\ last.ok =>
                /\ last.attempts = last.first
                /\ last.url # NoName
          /\ ~last.ok =>
                /\ last.attempts = 3
                /\ last.url = NoName
                /\ Len(queue) = Len(last.before) + 1
                /\ SubSeq(queue, 1, Len(last.before)) = last.before
                /\ queue[Len(queue)].filepath = last.path
                /\ queue[Len(queue)].status = "pending"
    /\ last.op = "upload_bytes" =>
          /\ last.attempts <= 3
          /\ last.ok <=> last.first \in 1..3
          /\ last.ok =>
                /\ last.attempts = last.first
                /\ last.url # NoName
          /\ ~last.ok =>
                /\ last.attempts = 3
                /\ last.url = NoName
                /\ queue = last.before

\* C3 witness: upload_photo has given up after its attempts and queued the path.
C3_Witness ==
    /\ last.op = "upload_photo"
    /\ last.existed
    /\ ~last.ok
    /\ last.attempts = 3
    /\ Len(queue) = Len(last.before) + 1

\* C4: after cleanup_storage(c) on N rows, with no call of the service raising:
\* if N > c the N - c oldest rows and their objects are gone and the newest c
\* rows remain; if N <= c nothing is deleted.
C4_OldestDeleted ==
    (last.op = "cleanup_storage" /\ ~last.raised) =>
        LET N == Len(last.rows)
            c == last.limit
        IN  IF N > c
            THEN /\ photos = SubSeq(last.rows, N - c + 1, N)
                 /\ \A i \in 1..(N - c) : last.rows[i].image_url \notin bucket
            ELSE /\ photos = last.rows
                 /\ bucket = last.objects

\* C5: whenever an upload has returned a URL and no call of the service raised
\* during its retention enforcement, the table holds at most 600 rows.
C5_AtMostCap ==
    (last.op \in {"upload_photo", "upload_bytes"} /\ last.ok /\ ~last.raised) =>
        Len(photos) <= StorageLimit

(***************************************************************************)
(* Properties of the Sync Queue.                                           *)
(***************************************************************************)
InPending(item, q) ==
    \E j \in 1..Len(get_pending(q)) : get_pending(q)[j] = item

\* C6: an item with more than 5 recorded failures is failed_permanently and
\* get_pending does not return it; from then on its status stays
\* failed_permanently and no sweep uploads it again.
C6_Excluded ==
    \A i \in 1..Len(queue) :
        queue[i].retries > 5 =>
            /\ queue[i].status = "failed_permanently"
            /\ ~InPending(queue[i], queue)

C6_Step ==
    \A i \in 1..Len(queue) :
        queue[i].retries > 5 =>
            /\ SyncKey(queue[i]) \in bucket' => SyncKey(queue[i]) \in bucket
            /\ \A j \in 1..Len(queue') :
                  queue'[j].timestamp = queue[i].timestamp =>
                      /\ queue'[j].status = "failed_permanently"
                      /\ queue'[j].retries >= queue[i].retries

C7_AfterFifthFailure ==
    \A i \in 1..Len(queue) :
        queue[i].retries >= 5 =>
            /\ queue[i].status = "failed_permanently"
            /\ ~InPending(queue[i], queue)

\* C7 amended: with up to 5 recorded failures the item is still pending and
\* returned by get_pending; from the 6th on it is failed_permanently and excluded.
C7_AfterSixthFailure ==
    \A i \in 1..Len(queue) :
        /\ queue[i].retries <= 5 =>
              queue[i].status = "pending" /\ InPending(queue[i], queue)
        /\ queue[i].retries >= 6 =>
              queue[i].status = "failed_permanently" /\ ~InPending(queue[i], queue)

\* C7 witness: the 6th failure has been recorded for an item.
C7_Witness ==
    \E i \in 1..Len(queue) :
        queue[i].retries = 6 /\ queue[i].status = "failed_permanently"

AmbientCommands == {"NORMAL", "LOVE", "SUS", "RAINBOW", "WELCOME"}

\* C1: a cycle whose command is PHOTO_TRIGGER 6 s or less after the last
\* accepted trigger is not accepted: it reads no frame, writes no file, sends no
\* command and dispatches no upload.
C1_Suppressed ==
    (cycle.command = "PHOTO_TRIGGER" /\ cycle.elapsed <= 6) =>
        /\ ~cycle.accepted
        /\ cycle.frames = 0
        /\ ~cycle.wrote_file
        /\ cycle.written = <<>>
        /\ ~cycle.dispatched

\* C1, step by step: a suppressed trigger leaves the port, the files, the upload
\* threads and the time of the last capture as they were; a capture starts only
\* in a cycle whose own command is PHOTO_TRIGGER, more than 6 s after the last
\* accepted trigger; so two accepted triggers are more than 6 s apart.
C1_Step ==
    /\ cycle'.outcome = "suppressed" =>
          UNCHANGED <<port, local_files, threads, last_capture_time, crashed>>
    /\ (last_capture_time' # last_capture_time \/ threads' # threads
            \/ local_files' # local_files) =>
          /\ cycle'.command = "PHOTO_TRIGGER"
          /\ cycle'.accepted
          /\ now' - last_capture_time > 6
    /\ last_capture_time' # last_capture_time =>
          last_capture_time' - last_capture_time > 6

C1_Cooldown == []C1_Suppressed /\ [][C1_Step]_vars

\* C1 witness: a trigger has been suppressed exactly 6 s after an accepted one.
C1_Witness ==
    /\ cycle.outcome = "suppressed"
    /\ cycle.elapsed = 6
    /\ last_capture_time > 0

\* C2: no cycle writes to the LED sink an ambient command equal to the command
\* that the sink received last.
C2_EdgeTriggered ==
    cycle.repeated => \A i \in 1..Len(cycle.written) : cycle.written[i] \notin AmbientCommands

\* C9: an accepted trigger whose capture gets no frame ends in a reported error,
\* with no file written and no upload dispatched.
C9_NoArtifactReported ==
    (cycle.accepted /\ cycle.frames = 0) =>
        /\ cycle.outcome \in {"no_file_error", "raised"}
        /\ ~cycle.wrote_file
        /\ ~cycle.dispatched

(***************************************************************************)
(* Properties of capture_burst.                                            *)
(***************************************************************************)
\* C10: capture_burst with count N (4 when no count is given) makes exactly N
\* attempts; the images of its result are the frames of the attempts that got
\* one, in the order of the attempts, each with its timestamp; with a frame
\* source that never fails there are N images.
C10_BurstAttempts ==
    burst.called =>
        LET N == IF burst.count = 0 THEN 4 ELSE burst.count
            got == {i \in 1..N : burst.reads[i]}
        IN  /\ burst.attempts = N
            /\ ~burst.raised =>
                  /\ Len(burst.images) = Cardinality(got)
                  /\ Len(burst.timestamps) = Len(burst.images)
                  /\ {burst.images[j] : j \in 1..Len(burst.images)} = got
                  /\ \A j \in 1..(Len(burst.images) - 1) :
                        /\ burst.images[j] < burst.images[j + 1]
                        /\ burst.timestamps[j] < burst.timestamps[j + 1]
                  /\ got = 1..N => Len(burst.images) = N

\* C10 witness: a default burst has returned fewer than 4 images because reads failed.
C10_Witness ==
    /\ burst.called
    /\ burst.count = 0
    /\ ~burst.raised
    /\ burst.attempts = 4
    /\ Len(burst.images) \in 1..3
    /\ Len(burst.timestamps) = Len(burst.images)

(***************************************************************************)
(* Properties of create_collage.                                           *)
(***************************************************************************)
\* C11: create_collage raises on an empty list; otherwise it uses the first 4
\* images, or all of them followed by copies of the last up to 4, laid out
\* top-left, top-right, bottom-left, bottom-right; the collage is twice the
\* smallest height by twice the smallest width of the 4 images used; and the
\* caller's list is as it was.
C11_Collage ==
    (pure.fn = "create_collage" /\ pure.called) =>
        LET images == pure.images
            n == Len(images)
            r == pure.result
            used == [i \in 1..4 |-> IF i <= n THEN images[i] ELSE images[n]]
        IN  /\ r.images = images
            /\ r.raised <=> n = 0
            /\ n > 0 =>
                  /\ r.used = used
                  /\ r.ids = [i \in 1..4 |-> used[i].id]
                  /\ r.h = 2 * MinOf({used[i].h : i \in 1..4})
                  /\ r.w = 2 * MinOf({used[i].w : i \in 1..4})

\* C11 witness: a collage has been made from 2 images of different sizes.
C11_Witness ==
    /\ pure.fn = "create_collage"
    /\ pure.called
    /\ Len(pure.images) = 2
    /\ pure.images[1].h # pure.images[2].h
    /\ pure.result.ids = <<1, 2, 2, 2>>

C13_Precedence ==
    cycle.outcome \in {"ambient", "suppressed", "uploading"} =>
        cycle.command =
            IF cycle.gesture = "THUMBS_UP" THEN "PHOTO_TRIGGER"
            ELSE IF cycle.animation \in {"LOVE", "SUS", "RAINBOW", "WELCOME"}
                 THEN cycle.animation
            ELSE IF cycle.gesture \in {"LOVE", "SUS"} THEN cycle.gesture
            ELSE "NORMAL"

\* C13 witness: the detector's LOVE has won over the gesture SUS.
C13_Witness ==
    /\ cycle.gesture = "SUS"
    /\ cycle.animation = "LOVE"
    /\ cycle.command = "LOVE"
    /\ cycle.outcome = "ambient"

\* C14: an accepted trigger sends PHOTO first, before the reads of the capture,
\* and an open port receives it whatever it received last.
C14_PhotoFirst ==
    cycle.accepted =>
        /\ Len(cycle.events) > 1
        /\ cycle.events[1] = "PHOTO"
        /\ \A i \in 2..Len(cycle.events) : cycle.events[i] = "read"
        /\ port.conn = "open" => cycle.written = <<"PHOTO">> /\ port.sink = "PHOTO"

\* C14, step by step: an accepted trigger leaves last_command other than
\* NORMAL; a cycle whose command is not NORMAL, or that has no frame, keeps it
\* other than NORMAL; and a cycle whose command is NORMAL while last_command is
\* not NORMAL sends NORMAL.  So the first NORMAL cycle after an accepted trigger
\* sends NORMAL.
C14_Step ==
    /\ (cycle'.accepted /\ last_capture_time' # last_capture_time) =>
          last_command' # "NORMAL"
    /\ (last_command # "NORMAL" /\ cycle'.command # "NORMAL") =>
          last_command' # "NORMAL"
    /\ (last_command # "NORMAL" /\ cycle'.command = "NORMAL") =>
          /\ cycle'.events = <<"NORMAL">>
          /\ port.conn = "open" => cycle'.written = <<"NORMAL">> /\ port'.sink = "NORMAL"
          /\ last_command' = "NORMAL"

C14_PhotoThenNormal == []C14_PhotoFirst /\ [][C14_Step]_vars

\* C14 witness: PHOTO has been written to a sink that already showed PHOTO.
C14_Witness ==
    /\ cycle.accepted
    /\ cycle.repeated
    /\ cycle.written = <<"PHOTO">>

\* C15: get_filter_from_string returns a FilterType for every str and for
\* None and never raises; names that differ in case only give the same
\* FilterType; a name that is no key of the mapping, the empty str and None
\* give NONE.
C15_Total ==
    pure.fn \in {"get_filter_from_string", "filter_type"} =>
        /\ ~pure.result.raised
        /\ pure.result.value \in FilterType
        /\ pure.filter_name # None =>
              \A other \in FilterNames \ {None} :
                  Str(str_upper(other)) = Str(str_upper(pure.filter_name)) =>
                      get_filter_from_string(other) = pure.result
        /\ pure.filter_name \in UnknownNames \cup {<<>>, None} =>
              pure.result.value = "NONE"

\* C15 witness: the function has been called with None and has returned NONE.
C15_Witness ==
    /\ pure.fn = "get_filter_from_string"
    /\ pure.filter_name = None
    /\ pure.result = [raised |-> FALSE, value |-> "NONE"]

\* C16: in any case CYBERPUNK gives NEON, PASTEL gives DREAMY, POLAROID gives
\* RETRO, BW gives NOIR and NORMAL gives NONE; and every filter name that a key
\* or a button stores selects one of NONE, GLITCH, NEON, DREAMY, RETRO, NOIR.
C16_Aliases ==
    (pure.fn \in {"get_filter_from_string", "filter_type"} /\ pure.filter_name # None) =>
        LET name == Str(str_upper(pure.filter_name))
            value == pure.result.value
        IN  /\ name = "CYBERPUNK" => value = "NEON"
            /\ name = "PASTEL" => value = "DREAMY"
            /\ name = "POLAROID" => value = "RETRO"
            /\ name = "BW" => value = "NOIR"
            /\ name = "NORMAL" => value = "NONE"
            /\ (/\ pure.fn = "filter_type"
                /\ \/ \E key \in DOMAIN KeyFilters : pure.filter_name = KeyFilters[key]
                   \/ \E b \in DOMAIN ButtonFilters : pure.filter_name = ButtonFilters[b])
               => value \in {"NONE", "GLITCH", "NEON", "DREAMY", "RETRO", "NOIR"}

\* C17: apply_filter(I, NONE) returns an image equal to I pixel for pixel, in
\* a buffer other than I's, and leaves I as it was.
C17_Identity ==
    (pure.fn = "apply_filter" /\ pure.filter_type = "NONE") =>
        LET res == pure.result
        IN  /\ res.memory[res.image] = pure.memory[pure.image]
            /\ res.image # pure.image
            /\ res.memory[pure.image] = pure.memory[pure.image]

\* C18: the RETRO filter on an image of H by W pixels, H and W at least 20,
\* returns an image higher than H and wider than W whose top-left pixel has
\* the colour of the border, white (255, 255, 255).
C18_RetroBorder ==
    (pure.fn = "apply_retro" /\ pure.row >= MinSize /\ pure.col >= MinSize) =>
        /\ pure.result.h > pure.row
        /\ pure.result.w > pure.col
        /\ pure.result.top_left = <<255, 255, 255>>

\* C19: the gesture of a frame is that of its first hand alone, whatever was
\* classified before: THUMBS_UP exactly when the four fingers are flexed and
\* the thumb tip is above the thumb base, LOVE exactly when index and middle
\* are extended and ring and little finger flexed, SUS exactly when the index
\* alone is extended; None otherwise and without a hand.  No two labels apply
\* to one hand.
C19_Classifier ==
    pure.fn = "process_frame" =>
        IF pure.hands = <<>> THEN pure.result = "None"
        ELSE LET h == pure.hands[1]
                 Flexed(tip, pip) == ~(tip < pip)
                 index == ~Flexed(h.index_tip, h.index_pip)
                 middle == ~Flexed(h.middle_tip, h.middle_pip)
                 ring == ~Flexed(h.ring_tip, h.ring_pip)
                 pinky == ~Flexed(h.pinky_tip, h.pinky_pip)
                 thumbs_up == /\ ~index /\ ~middle /\ ~ring /\ ~pinky
                              /\ h.thumb_tip < h.thumb_base
                 love == index /\ middle /\ ~ring /\ ~pinky
                 sus == index /\ ~middle /\ ~ring /\ ~pinky
             IN  /\ pure.result \in {"THUMBS_UP", "LOVE", "SUS", "None"}
                 /\ (pure.result = "THUMBS_UP") <=> thumbs_up
                 /\ (pure.result = "LOVE") <=> love
                 /\ (pure.result = "SUS") <=> sus
                 /\ ~(thumbs_up /\ love) /\ ~(thumbs_up /\ sus) /\ ~(love /\ sus)

\* C19 witness: a pointing first hand and a thumbs-up second hand give SUS.
C19_Witness ==
    /\ pure.fn = "process_frame"
    /\ Len(pure.hands) = 2
    /\ classify_gesture(pure.hands[2]) = "THUMBS_UP"
    /\ pure.result = "SUS"

\* C20: the broadcast callback, on SET_FILTER with filter = s, sets
\* current_filter to s in capitals and leaves current_mode; on SET_MODE with
\* mode = s it sets current_mode to s in capitals and leaves current_filter;
\* on any other type it changes neither.  Whatever the order in which the
\* callback, the gallery's routes and the keys write, a field holds the value
\* of the write made last.
C20_Step ==
    LET Capital(c) ==
            IF \E k \in DOMAIN LowerCase : LowerCase[k] = c
            THEN UpperCase[CHOOSE k \in DOMAIN LowerCase : LowerCase[k] = c]
            ELSE c
        Capitals(t) == [i \in 1..Len(t) |-> Capital(t[i])]
    IN  /\ \A event \in Events :
              OnEvent(event) =>
                  /\ (event.type = "SET_FILTER" /\ event.filter \notin {None, Missing}) =>
                        /\ current_filter' = Capitals(event.filter)
                        /\ current_mode' = current_mode
                  /\ (event.type = "SET_MODE" /\ event.mode \notin {None, Missing}) =>
                        /\ current_mode' = Str(Capitals(event.mode))
                        /\ current_filter' = current_filter
                  /\ event.type \notin {"SET_FILTER", "SET_MODE"} =>
                        /\ current_filter' = current_filter
                        /\ current_mode' = current_mode
        /\ \A button \in DOMAIN ButtonFilters :
              set_filter(ButtonFilters[button]) => current_filter' = ButtonFilters[button]
        /\ \A key \in DOMAIN KeyFilters :
              KeyFilter(key) => current_filter' = KeyFilters[key]
        /\ \A mode \in ModeValues : SetMode(mode) => current_mode' = mode

C20_Broadcast == [][C20_Step]_vars

\* C20 witness: after a route had set the mode, the callback has stored GLITCH
\* for "glitch" and the mode is still the route's.
C20_Witness ==
    /\ pure.fn = "on_event"
    /\ pure.event.type = "SET_FILTER"
    /\ pure.event.filter = <<"g", "l", "i", "t", "c", "h">>
    /\ current_filter = <<"G", "L", "I", "T", "C", "H">>
    /\ current_mode = "GIF"

\* C30: the subscribed callback, on a SET_FILTER whose filter is missing or
\* empty and on a SET_MODE whose mode is missing or empty, leaves
\* current_filter and current_mode as they were.
C30_Step ==
    \A event \in Events :
        (/\ OnEvent(event)
         /\ \/ event.type = "SET_FILTER" /\ event.filter \in {Missing, <<>>}
            \/ event.type = "SET_MODE" /\ event.mode \in {Missing, <<>>})
        => /\ current_filter' = current_filter
           /\ current_mode' = current_mode

C30_EmptyIgnored == [][C30_Step]_vars

\* C21: the loop makes no network call itself, and a cycle that ends without
\* an exception hands a file to a background worker exactly when it has
\* produced one.
C21_NeverBlocked ==
    /\ cycle.main_network = <<>>
    /\ cycle.outcome # "raised" => (cycle.dispatched <=> cycle.wrote_file)

\* C22: while the loop keeps sending, a port that is absent from the bridge
\* although the device is there is opened again (or the device goes away
\* again); a command is then delivered.
C22_Reconnects ==
    (port.conn = "none" /\ port.device) ~> (port.conn = "open" \/ ~port.device)

\* C23: Config.validate raises ValueError exactly when the URL or the key is
\* empty, and the booth reaches its capture loop only with both set.
C23_FatalAtStartup ==
    /\ pure.fn = "validate" =>
          (pure.result.raised <=>
              (pure.cfg.supabase_url = "" \/ pure.cfg.supabase_key = ""))
    /\ (pure.fn = "main" /\ pure.result.loop) =>
          /\ pure.result.settings.supabase_url # ""
          /\ pure.result.settings.supabase_key # ""

\* C24: in cleanup_storage a delete that fails for one excess row does not
\* stop the others: every excess row with a filename whose own deletes do not
\* fail loses its object and its row; and an upload that the service accepted
\* returns its URL whatever the enforcement met.
C24_PerItemErrors ==
    /\ (last.op = "cleanup_storage" /\ ~last.errs.fetch
                                    /\ Len(last.rows) > last.limit) =>
          \A i \in 1..(Len(last.rows) - last.limit) :
              last.rows[i].filename # NoName =>
                  /\ i \notin last.errs.storage =>
                        last.rows[i].filename \notin bucket
                  /\ i \notin last.errs.db =>
                        \A j \in 1..Len(photos) :
                            photos[j].filename # last.rows[i].filename
    /\ (last.op \in {"upload_photo", "upload_bytes"}
            /\ last.first \in 1..UploadAttempts) =>
          last.ok /\ last.url # NoName


\* The filepaths whose late retry succeeds in a sweep that meets outs: the
\* file is still on disk, and the upload and the insert are both accepted.
C25_Succeeded(outs) ==
    LET pending == get_pending(queue)
    IN  {pending[i].filepath : i \in {j \in DOMAIN pending :
            pending[j].filepath \in local_files /\ outs[j] = "ok"}}

C25_Others(q, fps) == SelectSeq(q, LAMBDA item : item.filepath \notin fps)

C25_Identity(q) == [i \in DOMAIN q |-> [filepath |-> q[i].filepath, timestamp |-> q[i].timestamp,
                                         metadata |-> q[i].metadata]]

C25_Step ==
    /\ \A fp \in Paths : MarkCompleted(fp) =>
          /\ \A i \in DOMAIN queue' : queue'[i].filepath # fp
          /\ queue' = C25_Others(queue, {fp})
          /\ load(storage_file') = queue'
    /\ \A outs \in [1..Len(get_pending(queue)) -> Outcomes] : ProcessQueue(outs) =>
          /\ C25_Identity(queue') = C25_Identity(C25_Others(queue, C25_Succeeded(outs)))
          /\ load(storage_file') = queue'

C27_NoItemLost ==
    /\ \A fp \in workers.owed : \E i \in DOMAIN queue : queue[i].filepath = fp
    /\ (\A w \in DOMAIN workers.at : workers.at[w].pc = "idle") =>
          \A fp \in workers.owed :
              \E i \in DOMAIN load(storage_file) : load(storage_file)[i].filepath = fp


\* C29: a call of upload_photo of which an attempt was accepted (object
\* stored, row inserted) returns the URL of that attempt, made no attempt
\* after it, left exactly one row for the artifact and queued nothing,
\* whatever the late retries and the retention pass met afterwards.
C29_StoredOnce ==
    (last.op = "upload_photo" /\ last.existed /\ last.first \in 1..UploadAttempts) =>
        /\ last.ok
        /\ last.url = PhotoKey(now - 1)
        /\ last.url \in bucket
        /\ last.attempts = last.first
        /\ Len(SelectSeq(photos, LAMBDA r : r.image_url = last.url)) = 1
        /\ \A i \in DOMAIN queue : \E j \in DOMAIN last.before :
              /\ queue[i].filepath = last.before[j].filepath
              /\ queue[i].timestamp = last.before[j].timestamp

\* C29 witness: an attempt was accepted after an earlier one failed, the
\* late retry of a queued item then failed and the retention pass raised.
C29_Witness ==
    /\ last.op = "upload_photo"
    /\ last.ok
    /\ last.first > 1
    /\ last.raised
    /\ last.before # <<>>
    /\ Recorded(queue) > Recorded(last.before)


\* Every frame of the sequence was taken in the branch of the mode read at
\* the trigger, SINGLE for a mode that is neither BURST nor GIF, and was
\* filtered with the filter of the name read at the trigger.
C28_Frames ==
    \A i \in DOMAIN sequence.frames :
        /\ sequence.frames[i].branch =
              (IF sequence.mode \in {"BURST", "GIF"} THEN sequence.mode ELSE "SINGLE")
        /\ sequence.frames[i].filter = get_filter_from_string(sequence.filter_name).value

\* The two locals are read from the shared fields when the trigger is
\* accepted and are not written again while the sequence captures.
C28_Step ==
    /\ (~sequence.active /\ sequence'.active) => sequence'.mode = current_mode
    /\ (sequence.pc = "filter" /\ sequence'.pc = "capture") =>
          /\ sequence'.filter_name = current_filter
          /\ sequence'.mode = sequence.mode
    /\ (sequence.pc = "capture" /\ sequence'.pc = "capture") =>
          /\ sequence'.mode = sequence.mode
          /\ sequence'.filter_name = sequence.filter_name
          /\ Len(sequence'.frames) >= Len(sequence.frames)
          /\ SubSeq(sequence'.frames, 1, Len(sequence.frames)) = sequence.frames

\* C28: a capture cycle reads the shared mode and the shared filter once, at
\* the accepted trigger, and every frame of its sequence uses those values
\* whatever is written to the shared fields meanwhile; a mode that is
\* neither BURST nor GIF is captured as SINGLE.
C28_ReadOnce == []C28_Frames /\ [][C28_Step]_vars

\* C28 witness: a burst with frames taken before and after both shared
\* fields were changed, all with the filter read at the trigger.
C28_Witness ==
    /\ sequence.pc = "capture"
    /\ sequence.mode = "BURST"
    /\ Len(sequence.frames) = BURST_COUNT
    /\ current_mode # sequence.mode
    /\ get_filter_from_string(current_filter).value # sequence.filter_type
    /\ sequence.filter_type # "NONE"

====
